---- MODULE Spec2Model ----
(***************************************************************************)
(* Model of the media-library maintenance scripts:                         *)
(*   scripts/promote_plex_appletv_variants.py   (prog = "promote")         *)
(*   tmp-scripts/reorg_plex_tv.py               (prog = "reorg")           *)
(*   scripts/reorganize_westcoast_privates.py   (prog = "westcoast")       *)
(*   tmp-scripts/jtswing_single_show.py         (prog = "jtswing")         *)
(*   scripts/garysusan_rename_episode_files.py  (prog = "garysusan")       *)
(*   the title normalisers of garysusan and                                *)
(*   scripts/plex_title_from_filename.py        (prog = "title")           *)
(*   scripts/plex_title_from_filename.py        (prog = "plextitle")       *)
(*   tmp-scripts/organize_uscreen_tree_as_show.py (prog = "uscreen")       *)
(*   tmp-scripts/organize_dance_tvshows.py      (prog = "dance")           *)
(*                                                                         *)
(* A path is a record [dir, name] relative to --root: dir is the sequence  *)
(* of directory components, name is the file name as a sequence of tokens  *)
(* (so startswith / endswith / suffix stripping are computed on the name). *)
(* The filesystem fs maps each existing file path to its content; dirs is  *)
(* the set of existing directories.                                        *)
(***************************************************************************)
EXTENDS Integers, Sequences, FiniteSets, TLC

VARIABLES
    prog,        \* which script runs
    apply,       \* --apply
    opts,        \* the script's other command-line flags
    pc,          \* position in main()
    run,         \* how many times the script has been started
    fs,          \* file path -> content
    dirs,        \* existing directories
    seen,        \* files already yielded by the directory walk in progress
    plan,        \* promote: list of PlanItem
    problems,    \* promote: list of problems
    i,           \* index of the next plan item in the apply loop
    errors,      \* promote: error counter of the apply loop
    out,         \* promote: outcome lines of the apply loop; reorg: the message of a refusal
    exitCode,    \* exit status of the last finished run
    entries,     \* reorg: the parsed manifest
    planned,     \* reorg: list of (entry, src, dst); jtswing, garysusan: list of (src, dst)
    missing,     \* reorg: list of (entry, why)
    dup_permalink,        \* reorg: list of (entry, why)
    seen_coll_permalink,  \* reorg: (collection, permalink) keys already met
    lines,       \* reorg: report lines collected so far
    report,      \* reorg, jtswing: content of the report file, <<>> while it is not written
    moves,       \* westcoast: list of (src, dst)
    manifest,    \* reorg: the lines of the manifest file
    skipped,     \* jtswing: files of a category directory that EP_RE does not match
    jt_seasons,  \* jtswing: the categories in season order, <<>> before it is computed
    files,       \* garysusan: the episode files in the order the loops reach them
    titles,      \* title normalisation: a raw title followed by its successive normal forms
    section,     \* plextitle: episodes, the Video elements of the library section on the server
    updates,     \* plextitle: list of (rk, fp, title)
    updated      \* plextitle: ok, the counter of the successful PUTs

promoteVars == <<seen, plan, problems, errors, out>>
reorgVars == <<entries, planned, missing, dup_permalink, seen_coll_permalink, lines, report>>
westVars == <<moves>>
jtVars == <<skipped, jt_seasons>>
gsVars == <<files>>
plexVars == <<section, updates, updated>>
titleVars == <<titles, plexVars>>

vars == <<prog, apply, opts, pc, run, fs, dirs, i, exitCode, promoteVars, reorgVars, westVars,
          manifest, jtVars, gsVars, titleVars>>

(***************************************************************************)
(* Bounds                                                                  *)
(***************************************************************************)
MaxFiles == 3
MaxRuns == 2

(***************************************************************************)
(* String and path helpers                                                 *)
(***************************************************************************)
StartsWith(s, pre) == Len(pre) <= Len(s) /\ SubSeq(s, 1, Len(pre)) = pre

EndsWith(s, suf) == Len(suf) <= Len(s) /\ SubSeq(s, Len(s) - Len(suf) + 1, Len(s)) = suf

Path(d, n) == [dir |-> d, name |-> n]

\* every directory on the way from the root down to d (the root itself excluded)
Ancestors(d) == {SubSeq(d, 1, k) : k \in 1..Len(d)}

\* os.makedirs(os.path.dirname(path), exist_ok=True)
ensure_parent(ds, path) == ds \cup Ancestors(path.dir)

\* os.rename / os.replace on POSIX: dst is silently replaced when it exists
Rename(f, src, dst) ==
    [p \in (DOMAIN f \ {src}) \cup {dst} |-> IF p = dst THEN f[src] ELSE f[p]]

isdir(ds, d) == d = <<>> \/ d \in ds

listdir(f, d) == {p \in DOMAIN f : p.dir = d}

(***************************************************************************)
(* promote_plex_appletv_variants.py                                        *)
(***************************************************************************)
SUFFIX == <<".plex-appletv", ".mp4">>
MP4 == <<".mp4">>
VariantsDir == "_variants"
BackupSubdir == "_replaced_originals"

\* SXXEXX_PREFIX: tokens the regex accepts as SxxEyy, mapped to f"S{s}E{e:02d}"
SXXEXX_PREFIX == [t \in {"S01E01", "S01E1"} |-> "S01E01"]

\* files the initial tree of promote may contain
PromoteFiles ==
    { Path(<<"A">>, <<"Show", " - ", "S01E01", " - ", "Y", ".mp4">>),
      Path(<<"A">>, <<"Show", " - ", "S01E01", " - ", "Z", ".mp4">>),
      Path(<<"A">>, <<"x", ".mp4">>),
      Path(<<"B">>, <<"x", ".mp4">>),
      Path(<<"A">>, <<"x", ".plex-appletv", ".mp4">>),
      Path(<<VariantsDir, "A">>, <<"Show", " - ", "S01E01", " - ", "X [1]", ".plex-appletv", ".mp4">>),
      Path(<<VariantsDir, "A">>, <<"Show", " - ", "S01E1", " - ", "X [2]", ".plex-appletv", ".mp4">>),
      Path(<<VariantsDir, "A">>, <<"x", ".plex-appletv", ".mp4">>),
      Path(<<VariantsDir, "C">>, <<"x", ".plex-appletv", ".mp4">>),
      Path(<<VariantsDir, "A">>, <<"x", ".plex-appletv", ".plex-appletv", ".mp4">>),
      Path(<<VariantsDir, BackupSubdir, "A">>, <<"x", ".mp4">>) }

\* rel == variants_dir or rel.startswith(variants_dir + os.sep)
InVariants(d) == Len(d) >= 1 /\ d[1] = VariantsDir

\* key of build_original_index: os.path.join(os.path.relpath(dirpath, root), fn)
IndexKey(p) == IF p.dir = <<>> THEN Path(<<".">>, p.name) ELSE p

\* build_original_index: every file outside the variants tree, by key
build_original_index(f) == {p \in DOMAIN f : ~InVariants(p.dir)}

\* iter_files(root, under=variants_dir)
iter_files(f) == {p \in DOMAIN f : InVariants(p.dir)}

StripSuffix(n) == SubSeq(n, 1, Len(n) - Len(SUFFIX))

\* lines 93-97: exact relative-path lookup in the index
ExactMatches(f, v) ==
    LET candidate_rel == Path(Tail(v.dir), StripSuffix(v.name) \o MP4)
    IN  {q \in build_original_index(f) : IndexKey(q) = candidate_rel}

\* lines 103-118: candidates of the SxxEyy match in the mirrored directory
DirCands(f, ds, v) ==
    LET n == v.name
        rel_dir == Tail(v.dir)
    IN  IF Len(n) >= 5 /\ n[2] = " - " /\ n[3] \in DOMAIN SXXEXX_PREFIX /\ n[4] = " - "
           /\ isdir(ds, rel_dir)
        THEN LET prefix == <<n[1], " - ", SXXEXX_PREFIX[n[3]], " - ">>
             IN  {q \in listdir(f, rel_dir) :
                     EndsWith(q.name, MP4) /\ ~EndsWith(q.name, SUFFIX) /\ StartsWith(q.name, prefix)}
        ELSE {}

\* lines 131-132: by_base.get(expected_base, [])
BaseCands(f, v) ==
    LET expected_base == StripSuffix(v.name) \o MP4
    IN  {q \in build_original_index(f) : q.name = expected_base}

\* the chain going on to the basename fallback after the in-directory step found
\* several candidates
MatchOriginal_FallThrough(f, ds, v, allow_basename_fallback) ==
    LET exact == ExactMatches(f, v)
        cands == DirCands(f, ds, v)
        bases == BaseCands(f, v)
    IN  IF exact # {} THEN [kind |-> "found", original |-> CHOOSE q \in exact : TRUE]
        ELSE IF Cardinality(cands) = 1 THEN [kind |-> "found", original |-> CHOOSE q \in cands : TRUE]
        ELSE IF allow_basename_fallback /\ Cardinality(bases) = 1
             THEN [kind |-> "found", original |-> CHOOSE q \in bases : TRUE]
        ELSE IF Cardinality(cands) > 1 THEN [kind |-> "multiple", matches |-> cands]
        ELSE [kind |-> "none"]

\* lines 97-138: the fallback chain for one variant file
\*   kind "found" with the original, "multiple" (lines 121-128) or "none" (line 137)
MatchOriginal(f, ds, v, allow_basename_fallback) ==
    LET exact == ExactMatches(f, v)
        cands == DirCands(f, ds, v)
        bases == BaseCands(f, v)
    IN  IF exact # {} THEN [kind |-> "found", original |-> CHOOSE q \in exact : TRUE]
        ELSE IF Cardinality(cands) = 1 THEN [kind |-> "found", original |-> CHOOSE q \in cands : TRUE]
        ELSE IF Cardinality(cands) > 1 THEN [kind |-> "multiple", matches |-> cands]
        ELSE IF allow_basename_fallback /\ Cardinality(bases) = 1
             THEN [kind |-> "found", original |-> CHOOSE q \in bases : TRUE]
        ELSE [kind |-> "none"]

\* line 140
BackupOf(original) == Path(<<VariantsDir, BackupSubdir>> \o original.dir, original.name)

PlanItem(v, original) == [variant |-> v, original |-> original, backup_original |-> BackupOf(original)]


\* the directories that must exist for the files of f to exist
DirsOf(f) == UNION {Ancestors(p.dir) : p \in DOMAIN f}

\* an initial tree: at most MaxFiles files of universe, each with its own content
Trees(universe) ==
    {[p \in S |-> p] : S \in {T \in SUBSET universe : Cardinality(T) <= MaxFiles}}

PromoteInit ==
    /\ prog = "promote"
    /\ apply \in BOOLEAN
    /\ opts \in [no_basename_fallback : BOOLEAN, delete_originals : BOOLEAN]
    /\ pc = "plan"
    /\ run = 1
    /\ fs \in Trees(PromoteFiles)
    /\ dirs = DirsOf(fs)
    /\ seen = {}
    /\ plan = <<>>
    /\ problems = <<>>
    /\ i = 1
    /\ errors = 0
    /\ out = <<>>
    /\ manifest = <<>>
    /\ skipped = <<>>
    /\ jt_seasons = <<>>
    /\ titles = <<>>
    /\ section = <<>>
    /\ updates = <<>>
    /\ updated = 0
    /\ files = <<>>
    /\ exitCode = 0
    /\ entries = <<>>
    /\ planned = <<>>
    /\ missing = <<>>
    /\ dup_permalink = <<>>
    /\ seen_coll_permalink = {}
    /\ lines = <<>>
    /\ report = <<>>
    /\ moves = <<>>

\* plan_promotions, one iteration of the loop over the variants tree (lines 85-141);
\* os.walk yields the files in an order the script does not control
plan_promotions_step ==
    /\ prog = "promote" /\ pc = "plan"
    /\ \E v \in iter_files(fs) \ seen :
          /\ seen' = seen \cup {v}
          /\ IF ~EndsWith(v.name, SUFFIX)
             THEN UNCHANGED <<plan, problems>>
             ELSE LET m == MatchOriginal(fs, dirs, v, ~opts.no_basename_fallback)
                  IN  CASE m.kind = "found" ->
                             /\ plan' = Append(plan, PlanItem(v, m.original))
                             /\ UNCHANGED problems
                        [] m.kind = "multiple" ->
                             /\ problems' = Append(problems,
                                   [kind |-> "multiple originals match variant",
                                    variant |-> v, matches |-> m.matches])
                             /\ UNCHANGED plan
                        [] OTHER ->
                             /\ problems' = Append(problems,
                                   [kind |-> "no matching original for variant",
                                    variant |-> v, matches |-> {}])
                             /\ UNCHANGED plan
    /\ UNCHANGED <<prog, apply, opts, pc, run, fs, dirs, i, errors, out, exitCode>>
    /\ UNCHANGED <<reorgVars, westVars>>
    /\ UNCHANGED <<manifest, jtVars, gsVars, titleVars>>

\* plan_promotions returns (line 143)
plan_promotions_return ==
    /\ prog = "promote" /\ pc = "plan"
    /\ iter_files(fs) \ seen = {}
    /\ pc' = "summary"
    /\ UNCHANGED <<prog, apply, opts, run, fs, dirs, seen, plan, problems, i, errors, out, exitCode>>
    /\ UNCHANGED <<reorgVars, westVars>>
    /\ UNCHANGED <<manifest, jtVars, gsVars, titleVars>>

\* promote_summary with the "if not args.apply: return" of lines 207-208 left out
promote_summary_IgnoreApply ==
    /\ prog = "promote" /\ pc = "summary"
    /\ pc' = "exec"
    /\ i' = 1
    /\ errors' = 0
    /\ UNCHANGED exitCode
    /\ UNCHANGED <<prog, apply, opts, run, fs, dirs, seen, plan, problems, out>>
    /\ UNCHANGED <<reorgVars, westVars>>
    /\ UNCHANGED <<manifest, jtVars, gsVars, titleVars>>

\* main, lines 186-210: print the plan; without --apply return
promote_summary ==
    /\ prog = "promote" /\ pc = "summary"
    /\ IF ~apply
       THEN /\ pc' = "done"
            /\ exitCode' = 0
            /\ UNCHANGED <<i, errors>>
       ELSE /\ pc' = "exec"
            /\ i' = 1
            /\ errors' = 0
            /\ UNCHANGED exitCode
    /\ UNCHANGED <<prog, apply, opts, run, fs, dirs, seen, plan, problems, out>>
    /\ UNCHANGED <<reorgVars, westVars>>
    /\ UNCHANGED <<manifest, jtVars, gsVars, titleVars>>

\* PromoteError leaving the loop at the first failure, as if the try were around the loop
PromoteError_Abort(p, note) ==
    /\ errors' = errors + 1
    /\ out' = Append(out, [action |-> "ERROR", path |-> p.variant, note |-> note])
    /\ i' = Len(plan) + 1
    /\ pc' = "exec"

\* main, lines 218-220: the except branch of the apply loop
PromoteError(p, note) ==
    /\ errors' = errors + 1
    /\ out' = Append(out, [action |-> "ERROR", path |-> p.variant, note |-> note])
    /\ i' = i + 1
    /\ pc' = "exec"

\* promote_one_checks without the test of lines 151-152
promote_one_checks_NoBackupCheck ==
    /\ prog = "promote" /\ pc = "exec" /\ i <= Len(plan)
    /\ ~opts.delete_originals
    /\ LET p == plan[i]
       IN  IF p.variant \notin DOMAIN fs THEN PromoteError(p, "FileNotFoundError")
           ELSE IF p.original \notin DOMAIN fs THEN PromoteError(p, "FileNotFoundError")
           ELSE /\ pc' = "backup"
                /\ UNCHANGED <<i, errors, out>>
    /\ UNCHANGED <<prog, apply, opts, run, fs, dirs, seen, plan, problems, exitCode>>
    /\ UNCHANGED <<reorgVars, westVars>>
    /\ UNCHANGED <<manifest, jtVars, gsVars, titleVars>>

\* promote_one, lines 147-152: the three existence checks
promote_one_checks ==
    /\ prog = "promote" /\ pc = "exec" /\ i <= Len(plan)
    /\ ~opts.delete_originals
    /\ LET p == plan[i]
       IN  IF p.variant \notin DOMAIN fs THEN PromoteError(p, "FileNotFoundError")
           ELSE IF p.original \notin DOMAIN fs THEN PromoteError(p, "FileNotFoundError")
           ELSE IF p.backup_original \in DOMAIN fs THEN PromoteError(p, "FileExistsError")
           ELSE /\ pc' = "backup"
                /\ UNCHANGED <<i, errors, out>>
    /\ UNCHANGED <<prog, apply, opts, run, fs, dirs, seen, plan, problems, exitCode>>
    /\ UNCHANGED <<reorgVars, westVars>>
    /\ UNCHANGED <<manifest, jtVars, gsVars, titleVars>>

\* promote_one_backup with the two renames in the wrong order: the variant goes first
promote_one_backup_ReplaceFirst ==
    /\ prog = "promote" /\ pc = "backup"
    /\ LET p == plan[i]
       IN  /\ dirs' = ensure_parent(dirs, p.original)
           /\ \/ /\ fs' = Rename(fs, p.variant, p.original)
                 /\ pc' = "replace"
                 /\ UNCHANGED <<i, errors, out>>
              \/ /\ PromoteError(p, "OSError")
                 /\ UNCHANGED fs
    /\ UNCHANGED <<prog, apply, opts, run, seen, plan, problems, exitCode>>
    /\ UNCHANGED <<reorgVars, westVars>>
    /\ UNCHANGED <<manifest, jtVars, gsVars, titleVars>>

\* promote_one, lines 154-155: move the original to the backup location
promote_one_backup ==
    /\ prog = "promote" /\ pc = "backup"
    /\ LET p == plan[i]
       IN  /\ dirs' = ensure_parent(dirs, p.backup_original)
           /\ \/ /\ fs' = Rename(fs, p.original, p.backup_original)
                 /\ pc' = "replace"
                 /\ UNCHANGED <<i, errors, out>>
              \/ /\ PromoteError(p, "OSError")
                 /\ UNCHANGED fs
    /\ UNCHANGED <<prog, apply, opts, run, seen, plan, problems, exitCode>>
    /\ UNCHANGED <<reorgVars, westVars>>
    /\ UNCHANGED <<manifest, jtVars, gsVars, titleVars>>

\* promote_one, lines 156-157, and line 217: move the variant into the vacated path
promote_one_replace ==
    /\ prog = "promote" /\ pc = "replace"
    /\ LET p == plan[i]
       IN  /\ dirs' = ensure_parent(dirs, p.original)
           /\ \/ /\ fs' = Rename(fs, p.variant, p.original)
                 /\ out' = Append(out, [action |-> "DONE", path |-> p.original, note |-> ""])
                 /\ i' = i + 1
                 /\ pc' = "exec"
                 /\ UNCHANGED errors
              \/ /\ PromoteError(p, "OSError")
                 /\ UNCHANGED fs
    /\ UNCHANGED <<prog, apply, opts, run, seen, plan, problems, exitCode>>
    /\ UNCHANGED <<reorgVars, westVars>>
    /\ UNCHANGED <<manifest, jtVars, gsVars, titleVars>>

\* promote_one_delete_original (lines 160-165) and line 217
promote_one_delete_original ==
    /\ prog = "promote" /\ pc = "exec" /\ i <= Len(plan)
    /\ opts.delete_originals
    /\ LET p == plan[i]
       IN  IF p.variant \notin DOMAIN fs
           THEN /\ PromoteError(p, "FileNotFoundError")
                /\ UNCHANGED <<fs, dirs>>
           ELSE /\ dirs' = ensure_parent(dirs, p.original)
                /\ \/ /\ fs' = Rename(fs, p.variant, p.original)
                      /\ out' = Append(out, [action |-> "DONE", path |-> p.original, note |-> ""])
                      /\ i' = i + 1
                      /\ UNCHANGED <<pc, errors>>
                   \/ /\ PromoteError(p, "OSError")
                      /\ UNCHANGED fs
    /\ UNCHANGED <<prog, apply, opts, run, seen, plan, problems, exitCode>>
    /\ UNCHANGED <<reorgVars, westVars>>
    /\ UNCHANGED <<manifest, jtVars, gsVars, titleVars>>

\* main, lines 222-223: the loop is over; exit status 2 when an item failed
promote_exit ==
    /\ prog = "promote" /\ pc = "exec" /\ i > Len(plan)
    /\ pc' = "done"
    /\ exitCode' = IF errors > 0 THEN 2 ELSE 0
    /\ UNCHANGED <<prog, apply, opts, run, fs, dirs, seen, plan, problems, i, errors, out>>
    /\ UNCHANGED <<reorgVars, westVars>>
    /\ UNCHANGED <<manifest, jtVars, gsVars, titleVars>>

\* the script is started again with the same options on the tree it left
promote_rerun ==
    /\ prog = "promote" /\ pc = "done"
    /\ run < MaxRuns
    /\ run' = run + 1
    /\ pc' = "plan"
    /\ seen' = {}
    /\ plan' = <<>>
    /\ problems' = <<>>
    /\ i' = 1
    /\ errors' = 0
    /\ out' = <<>>
    /\ UNCHANGED <<prog, apply, opts, fs, dirs, exitCode>>
    /\ UNCHANGED <<reorgVars, westVars>>
    /\ UNCHANGED <<manifest, jtVars, gsVars, titleVars>>

PromoteNext ==
    \/ plan_promotions_step
    \/ plan_promotions_return
    \/ promote_summary
    \/ promote_one_checks
    \/ promote_one_backup
    \/ promote_one_replace
    \/ promote_one_delete_original
    \/ promote_exit
    \/ promote_rerun

SpecPromote == PromoteInit /\ [][PromoteNext]_vars

\* files of a tree in which the in-directory step finds several candidates
AmbiguousFiles ==
    { Path(<<VariantsDir, "A">>, <<"Show", " - ", "S01E01", " - ", "X [1]", ".plex-appletv", ".mp4">>),
      Path(<<"A">>, <<"Show", " - ", "S01E01", " - ", "Y", ".mp4">>),
      Path(<<"A">>, <<"Show", " - ", "S01E01", " - ", "Z", ".mp4">>),
      Path(<<"B">>, <<"Show", " - ", "S01E01", " - ", "X [1]", ".mp4">>),
      Path(<<"A">>, <<"Show", " - ", "S01E01", " - ", "X [1]", ".mp4">>),
      Path(<<VariantsDir, "A">>, <<"notes", ".txt">>) }

\* promote started on any tree made of those files
PromoteAmbiguousInit ==
    /\ prog = "promote"
    /\ apply \in BOOLEAN
    /\ opts \in [no_basename_fallback : BOOLEAN, delete_originals : BOOLEAN]
    /\ pc = "plan"
    /\ run = 1
    /\ fs \in {[p \in S |-> p] : S \in SUBSET AmbiguousFiles}
    /\ dirs = DirsOf(fs)
    /\ seen = {}
    /\ plan = <<>>
    /\ problems = <<>>
    /\ i = 1
    /\ errors = 0
    /\ out = <<>>
    /\ manifest = <<>>
    /\ skipped = <<>>
    /\ jt_seasons = <<>>
    /\ titles = <<>>
    /\ section = <<>>
    /\ updates = <<>>
    /\ updated = 0
    /\ files = <<>>
    /\ exitCode = 0
    /\ entries = <<>>
    /\ planned = <<>>
    /\ missing = <<>>
    /\ dup_permalink = <<>>
    /\ seen_coll_permalink = {}
    /\ lines = <<>>
    /\ report = <<>>
    /\ moves = <<>>

SpecPromoteAmbiguous == PromoteAmbiguousInit /\ [][PromoteNext]_vars


(***************************************************************************)
(* reorg_plex_tv.py                                                        *)
(***************************************************************************)
MaxEntries == 2

\* --show
Show == "Show"

NoPath == Path(<<>>, <<>>)

\* manifest values: collection "" and permalink <<>> stand for a missing field
Permalinks ==
    { <<"sugar", "-", "push", "mp4">>,
      <<"sugar", "_", "push">>,
      <<"sugar">> }

\* Entry values a well-formed manifest line may carry
ReorgEntries ==
    [collection : {"K"}, collection_index : {1}, cid : {"7"}, permalink : Permalinks]
    \cup [collection : {""}, collection_index : {1}, cid : {"7"}, permalink : {<<"sugar">>}]

SeasonDst == <<"TV Shows", Show, "Season 01 - K">>

\* files the initial tree of reorg may contain
ReorgFiles ==
    { Path(<<"K">>, <<"sugar", "-", "push", ".mp4">>),
      Path(<<"K">>, <<"sugar", "_", "push", ".mp4">>),
      Path(<<"K">>, <<"sugar", ".mp4">>),
      Path(<<"K">>, <<"sugar", ".plex-appletv", ".mp4">>),
      Path(<<"K">>, <<"sugar", "-", "push", ".mp4", ".part">>),
      Path(<<VariantsDir, "K">>, <<"sugar", ".plex-appletv", ".mp4">>),
      Path(SeasonDst, <<Show, " - S", "01", "E", "01", " - ", "Sugar", "Push", ".mp4">>),
      Path(SeasonDst, <<Show, " - S", "01", "E", "01", " - ", "Sugar", "Push", " (cid ", "7", ")", ".mp4">>) }

Elems(s) == {s[k] : k \in 1..Len(s)}

\* f"{n:02d}"
Num2(n) == <<"00", "01", "02", "03", "04", "05", "06", "07", "08", "09">>[n + 1]

\* INVALID_FS_CHARS
INVALID_FS_CHARS == {"\\", "/", ":", "*", "?", "\"", "<", ">", "|"}

RECURSIVE CollapseWs(_)
\* WS_RE.sub(" ", s): runs of blank tokens become one
CollapseWs(s) ==
    IF Len(s) <= 1 THEN s
    ELSE IF s[1] = " " /\ s[2] = " " THEN CollapseWs(Tail(s))
    ELSE <<s[1]>> \o CollapseWs(Tail(s))

\* .strip() of blank tokens at both ends
StripWs(s) ==
    LET a == IF Len(s) > 0 /\ s[1] = " " THEN Tail(s) ELSE s
    IN  IF Len(a) > 0 /\ a[Len(a)] = " " THEN SubSeq(a, 1, Len(a) - 1) ELSE a

\* safe_component on a name given as tokens
safe_component(s) ==
    StripWs(CollapseWs([k \in 1..Len(s) |-> IF s[k] \in INVALID_FS_CHARS THEN " " ELSE s[k]]))

SEPS == {"-", "_"}

RECURSIVE LStripSeps(_)
LStripSeps(s) == IF Len(s) > 0 /\ s[1] \in SEPS THEN LStripSeps(Tail(s)) ELSE s

RECURSIVE RStripSeps(_)
RStripSeps(s) == IF Len(s) > 0 /\ s[Len(s)] \in SEPS THEN RStripSeps(SubSeq(s, 1, Len(s) - 1)) ELSE s

permalink_to_base(permalink) ==
    LET s == IF Len(permalink) > 0 /\ permalink[Len(permalink)] = "mp4"
             THEN SubSeq(permalink, 1, Len(permalink) - 1)
             ELSE permalink
    IN  RStripSeps(LStripSeps(s))

\* HEX_TOKEN_RE, the \d+mov and \d+p\w* patterns, restricted to the tokens in use
HexTokens == {"abc12"}
ResolutionTokens == {"1080mov", "720p"}

\* p[:1].upper() + p[1:], or p itself when p.isupper() and len(p) <= 4
Capitalize ==
    [t \in {"sugar", "push", "abc12", "mov", "mp4", "1080mov", "720p"} |->
        CASE t = "sugar" -> "Sugar"
          [] t = "push" -> "Push"
          [] t = "abc12" -> "Abc12"
          [] t = "mov" -> "Mov"
          [] t = "mp4" -> "Mp4"
          [] OTHER -> t]

title_from_permalink(permalink) ==
    LET base == permalink_to_base(permalink)
        IsPart(t) == t \notin SEPS
        parts == SelectSeq(base, IsPart)
        Keep(t) == t \notin HexTokens /\ t \notin {"mov", "mp4"} /\ t \notin ResolutionTokens
        cleaned == IF SelectSeq(parts, Keep) = <<>> THEN parts ELSE SelectSeq(parts, Keep)
    IN  [k \in 1..Len(cleaned) |-> Capitalize[cleaned[k]]]

\* str.lower() and the three "/" replacements, on the directory names in use
Lower == [d \in {"K", "k", "TV Shows", "_variants"} |->
            CASE d = "K" -> "k" [] d = "TV Shows" -> "tv shows" [] OTHER -> d]

SlashVariants(collection) == {collection}

choose_collection_dir(existing_dirs, collection) ==
    IF collection \in existing_dirs THEN collection
    ELSE IF SlashVariants(collection) \cap existing_dirs # {}
         THEN CHOOSE c \in SlashVariants(collection) \cap existing_dirs : TRUE
    ELSE IF \E d \in existing_dirs : Lower[d] = Lower[collection]
         THEN CHOOSE d \in existing_dirs : Lower[d] = Lower[collection]
    ELSE ""

\* main, line 220
existing_dirs(ds) == {d[1] : d \in {x \in ds : Len(x) = 1}}

\* find_source_file with prefer_non_variants=True: the set of paths a call can
\* return ({NoPath} for None); os.listdir fixes no order, the first hit is returned
find_source_file(f, ds, collection_dir, permalink) ==
    LET base == permalink_to_base(permalink)
        dpath == <<collection_dir>>
        direct == Path(dpath, base \o MP4)
        hits == {q \in listdir(f, dpath) :
                    /\ EndsWith(q.name, MP4)
                    /\ StartsWith(q.name, base)
                    /\ ".plex-appletv" \notin Elems(q.name)}
    IN  IF direct \in DOMAIN f
        THEN IF ".plex-appletv" \in Elems(direct.name) THEN {NoPath} ELSE {direct}
        ELSE IF ~isdir(ds, dpath) THEN {NoPath}
        ELSE IF hits = {} THEN {NoPath}
        ELSE hits

RECURSIVE season_order(_)
\* main, lines 223-230: collections by first appearance
season_order(es) ==
    IF es = <<>> THEN <<>>
    ELSE LET before == season_order(SubSeq(es, 1, Len(es) - 1))
             c == es[Len(es)].collection
         IN  IF c = "" \/ c \in Elems(before) THEN before ELSE Append(before, c)

\* main, line 231
season_num(es, c) == CHOOSE k \in 1..Len(season_order(es)) : season_order(es)[k] = c

SeasonDir == [s \in {1}, c \in {"K"} |-> "Season 01 - K"]

\* main, lines 261-267
DstOf(es, e) ==
    LET s == season_num(es, e.collection)
        ep == e.collection_index
        title == title_from_permalink(e.permalink)
    IN  Path(<<"TV Shows", Show, SeasonDir[s, e.collection]>>,
             safe_component(<<Show, " - S", Num2(s), "E", Num2(ep), " - ">> \o title \o MP4))

\* main, lines 313-319
AltOf(es, e) ==
    LET s == season_num(es, e.collection)
        ep == e.collection_index
        title == title_from_permalink(e.permalink)
        cid == IF e.cid = "" THEN "unknown" ELSE e.cid
    IN  Path(<<"TV Shows", Show, SeasonDir[s, e.collection]>>,
             safe_component(<<Show, " - S", Num2(s), "E", Num2(ep), " - ">> \o title
                            \o <<" (cid ", cid, ")">> \o MP4))

\* Conflicts with the threshold off by one (n > 2)
Conflicts_OffByOne(pl) ==
    {d \in {pl[k].dst : k \in 1..Len(pl)} :
        Cardinality({k \in 1..Len(pl) : pl[k].dst = d}) > 2}

\* main, lines 271-272
Conflicts(pl) ==
    {d \in {pl[k].dst : k \in 1..Len(pl)} :
        Cardinality({k \in 1..Len(pl) : pl[k].dst = d}) > 1}

\* record (lines 281-295)
Line(action, e, src, dst, note) ==
    [action |-> action, entry |-> e, src |-> src, dst |-> dst, note |-> note]

NoEntry == [collection |-> "", collection_index |-> 0, cid |-> "", permalink |-> <<>>]

\* a line of the manifest file: blank, text json.loads rejects ("bad"), JSON that is
\* not an object ("nonobj"), or a JSON object with the fields of an Entry ("obj")
ManifestLines ==
    {[kind |-> k, entry |-> NoEntry] : k \in {"blank", "bad", "nonobj"}}
    \cup {[kind |-> "obj", entry |-> e] : e \in ReorgEntries}

Manifests == UNION {[1..n -> ManifestLines] : n \in 0..MaxEntries}

RECURSIVE parse_manifest_jsonl_SkipBad(_)
\* parse_manifest_jsonl passing over the lines it cannot read instead of raising
parse_manifest_jsonl_SkipBad(ls) ==
    IF ls = <<>> THEN [failure |-> "", out |-> <<>>]
    ELSE LET before == parse_manifest_jsonl_SkipBad(SubSeq(ls, 1, Len(ls) - 1))
             line == ls[Len(ls)]
         IN  IF line.kind # "obj" THEN before
             ELSE [failure |-> "", out |-> Append(before.out, line.entry)]

RECURSIVE parse_manifest_jsonl(_)
\* parse_manifest_jsonl: the entries of the non-blank lines in file order, or the
\* failure raised at the first line that cannot be read
parse_manifest_jsonl(ls) ==
    IF ls = <<>> THEN [failure |-> "", out |-> <<>>]
    ELSE LET before == parse_manifest_jsonl(SubSeq(ls, 1, Len(ls) - 1))
             line == ls[Len(ls)]
         IN  IF before.failure # "" THEN before
             ELSE IF line.kind = "blank" THEN before
             ELSE IF line.kind = "bad" THEN [failure |-> "SystemExit", out |-> <<>>]
             ELSE IF line.kind = "nonobj" THEN [failure |-> "AttributeError", out |-> <<>>]
             ELSE [failure |-> "", out |-> Append(before.out, line.entry)]


ReorgInit ==
    /\ prog = "reorg"
    /\ apply \in BOOLEAN
    /\ opts \in [move_variants : BOOLEAN, delete_safe_partials : BOOLEAN]
    /\ pc = "parse"
    /\ run = 1
    /\ fs \in Trees(ReorgFiles)
    /\ dirs = DirsOf(fs)
    /\ i = 1
    /\ exitCode = 0
    /\ manifest \in Manifests
    /\ entries = <<>>
    /\ planned = <<>>
    /\ missing = <<>>
    /\ dup_permalink = <<>>
    /\ seen_coll_permalink = {}
    /\ lines = <<>>
    /\ report = <<>>
    /\ seen = {}
    /\ plan = <<>>
    /\ problems = <<>>
    /\ errors = 0
    /\ out = <<>>
    /\ moves = <<>>
    /\ skipped = <<>>
    /\ jt_seasons = <<>>
    /\ titles = <<>>
    /\ section = <<>>
    /\ updates = <<>>
    /\ updated = 0
    /\ files = <<>>

\* main, line 218: the manifest is read before anything else; a line that cannot
\* be read ends the run there
reorg_parse ==
    /\ prog = "reorg" /\ pc = "parse"
    /\ LET r == parse_manifest_jsonl(manifest)
       IN  IF r.failure # ""
           THEN /\ pc' = "parse_error"
                /\ exitCode' = 1
                /\ UNCHANGED entries
           ELSE /\ pc' = "plan"
                /\ entries' = r.out
                /\ UNCHANGED exitCode
    /\ i' = 1
    /\ UNCHANGED <<prog, apply, opts, run, fs, dirs, planned, missing, dup_permalink,
                   seen_coll_permalink, lines, report>>
    /\ UNCHANGED <<promoteVars, westVars>>
    /\ UNCHANGED <<manifest, jtVars, gsVars, titleVars>>

\* main, lines 239-268: one iteration of the planning loop
reorg_plan_step ==
    /\ prog = "reorg" /\ pc = "plan" /\ i <= Len(entries)
    /\ LET e == entries[i]
           key == <<e.collection, e.permalink>>
           cdir == choose_collection_dir(existing_dirs(dirs), e.collection)
       IN  IF e.collection = "" \/ e.permalink = <<>>
           THEN /\ missing' = Append(missing, [entry |-> e, why |-> "missing_collection_or_permalink"])
                /\ UNCHANGED <<planned, dup_permalink, seen_coll_permalink>>
           ELSE IF key \in seen_coll_permalink
           THEN /\ dup_permalink' = Append(dup_permalink, [entry |-> e, why |-> "duplicate_collection_permalink"])
                /\ UNCHANGED <<planned, missing, seen_coll_permalink>>
           ELSE /\ seen_coll_permalink' = seen_coll_permalink \cup {key}
                /\ UNCHANGED dup_permalink
                /\ IF cdir = ""
                   THEN /\ missing' = Append(missing, [entry |-> e, why |-> "missing_collection_dir"])
                        /\ UNCHANGED planned
                   ELSE \E src \in find_source_file(fs, dirs, cdir, e.permalink) :
                           IF src = NoPath
                           THEN /\ missing' = Append(missing, [entry |-> e, why |-> "missing_src"])
                                /\ UNCHANGED planned
                           ELSE /\ planned' = Append(planned, [entry |-> e, src |-> src, dst |-> DstOf(entries, e)])
                                /\ UNCHANGED missing
    /\ i' = i + 1
    /\ UNCHANGED <<prog, apply, opts, pc, run, fs, dirs, exitCode, entries, lines, report>>
    /\ UNCHANGED <<promoteVars, westVars>>
    /\ UNCHANGED <<manifest, jtVars, gsVars, titleVars>>

\* the head of the report without the SKIP lines of the duplicate entries
ReportHead_NoSkip ==
    <<Line("action", NoEntry, NoPath, NoPath, "header")>>
    \o [k \in 1..Len(missing) |-> Line("MISSING", missing[k].entry, NoPath, NoPath, missing[k].why)]

\* main, lines 297-300: header, MISSING and SKIP lines of the report
ReportHead ==
    <<Line("action", NoEntry, NoPath, NoPath, "header")>>
    \o [k \in 1..Len(missing) |-> Line("MISSING", missing[k].entry, NoPath, NoPath, missing[k].why)]
    \o [k \in 1..Len(dup_permalink) |-> Line("SKIP", dup_permalink[k].entry, NoPath, NoPath, dup_permalink[k].why)]

\* main, lines 270-300: destination conflict check, then the head of the report
reorg_conflict_check ==
    /\ prog = "reorg" /\ pc = "plan" /\ i > Len(entries)
    /\ IF Conflicts(planned) # {}
       THEN /\ pc' = "refused"
            /\ exitCode' = 1
            /\ out' = <<[action |-> "refusing to proceed",
                         conflicting_destination_paths |-> Cardinality(Conflicts(planned))]>>
            /\ UNCHANGED <<lines, i>>
       ELSE /\ pc' = "moves"
            /\ lines' = ReportHead
            /\ i' = 1
            /\ UNCHANGED <<exitCode, out>>
    /\ UNCHANGED <<prog, apply, opts, run, fs, dirs, entries, planned, missing, dup_permalink,
                   seen_coll_permalink, report>>
    /\ UNCHANGED <<seen, plan, problems, errors, westVars>>
    /\ UNCHANGED <<manifest, jtVars, gsVars, titleVars>>

\* reorg_move_step without the os.path.exists(dst) branch of lines 311-323
reorg_move_step_Overwrite ==
    /\ prog = "reorg" /\ pc = "moves" /\ i <= Len(planned)
    /\ LET e == planned[i].entry
           src == planned[i].src
           dst == planned[i].dst
       IN  IF src \notin DOMAIN fs
           THEN /\ lines' = Append(lines,
                      IF dst \in DOMAIN fs
                      THEN Line("DONE", e, src, dst, "src missing, dst exists")
                      ELSE Line("MISSING", e, src, dst, "src missing at apply time"))
                /\ UNCHANGED <<fs, dirs>>
           ELSE IF apply
           THEN /\ dirs' = ensure_parent(dirs, dst)
                /\ \/ /\ fs' = Rename(fs, src, dst)
                      /\ lines' = Append(lines, Line("MOVE", e, src, dst, ""))
                   \/ /\ lines' = Append(lines, Line("ERROR", e, src, dst, "OSError"))
                      /\ UNCHANGED fs
           ELSE /\ lines' = Append(lines, Line("PLAN", e, src, dst, ""))
                /\ UNCHANGED <<fs, dirs>>
    /\ i' = i + 1
    /\ UNCHANGED <<prog, apply, opts, pc, run, exitCode, entries, planned, missing, dup_permalink,
                   seen_coll_permalink, report>>
    /\ UNCHANGED <<promoteVars, westVars>>
    /\ UNCHANGED <<manifest, jtVars, gsVars, titleVars>>

\* reorg_move_step without the os.path.exists(src) test of lines 304-309: the rename
\* of a missing source raises FileNotFoundError, recorded as MISSING by line 328
reorg_move_step_NoSrcCheck ==
    /\ prog = "reorg" /\ pc = "moves" /\ i <= Len(planned)
    /\ LET e == planned[i].entry
           src == planned[i].src
           dst == planned[i].dst
           alt == AltOf(entries, e)
           target == IF dst \in DOMAIN fs THEN alt ELSE dst
       IN  IF dst \in DOMAIN fs /\ alt \in DOMAIN fs
           THEN /\ lines' = Append(lines, Line("SKIP", e, src, dst, "dst exists (and alt exists)"))
                /\ UNCHANGED <<fs, dirs>>
           ELSE IF apply
           THEN /\ dirs' = ensure_parent(dirs, target)
                /\ IF src \notin DOMAIN fs
                   THEN /\ lines' = Append(lines, Line("MISSING", e, src, target, "FileNotFoundError"))
                        /\ UNCHANGED fs
                   ELSE \/ /\ fs' = Rename(fs, src, target)
                           /\ lines' = Append(lines, Line("MOVE", e, src, target, ""))
                        \/ /\ lines' = Append(lines, Line("ERROR", e, src, target, "OSError"))
                           /\ UNCHANGED fs
           ELSE /\ lines' = Append(lines, Line("PLAN", e, src, target, ""))
                /\ UNCHANGED <<fs, dirs>>
    /\ i' = i + 1
    /\ UNCHANGED <<prog, apply, opts, pc, run, exitCode, entries, planned, missing, dup_permalink,
                   seen_coll_permalink, report>>
    /\ UNCHANGED <<promoteVars, westVars>>
    /\ UNCHANGED <<manifest, jtVars, gsVars, titleVars>>

\* main, lines 303-334: one iteration of the loop over the planned moves
reorg_move_step ==
    /\ prog = "reorg" /\ pc = "moves" /\ i <= Len(planned)
    /\ LET e == planned[i].entry
           src == planned[i].src
           dst == planned[i].dst
           alt == AltOf(entries, e)
           target == IF dst \in DOMAIN fs THEN alt ELSE dst
       IN  IF src \notin DOMAIN fs
           THEN /\ lines' = Append(lines,
                      IF dst \in DOMAIN fs
                      THEN Line("DONE", e, src, dst, "src missing, dst exists")
                      ELSE Line("MISSING", e, src, dst, "src missing at apply time"))
                /\ UNCHANGED <<fs, dirs>>
           ELSE IF dst \in DOMAIN fs /\ alt \in DOMAIN fs
           THEN /\ lines' = Append(lines, Line("SKIP", e, src, dst, "dst exists (and alt exists)"))
                /\ UNCHANGED <<fs, dirs>>
           ELSE IF apply
           THEN /\ dirs' = ensure_parent(dirs, target)
                /\ \/ /\ fs' = Rename(fs, src, target)
                      /\ lines' = Append(lines, Line("MOVE", e, src, target, ""))
                   \/ /\ lines' = Append(lines, Line("ERROR", e, src, target, "OSError"))
                      /\ UNCHANGED fs
           ELSE /\ lines' = Append(lines, Line("PLAN", e, src, target, ""))
                /\ UNCHANGED <<fs, dirs>>
    /\ i' = i + 1
    /\ UNCHANGED <<prog, apply, opts, pc, run, exitCode, entries, planned, missing, dup_permalink,
                   seen_coll_permalink, report>>
    /\ UNCHANGED <<promoteVars, westVars>>
    /\ UNCHANGED <<manifest, jtVars, gsVars, titleVars>>

\* main, line 336: the loop over the planned moves is over
reorg_moves_done ==
    /\ prog = "reorg" /\ pc = "moves" /\ i > Len(planned)
    /\ pc' = "variants"
    /\ seen' = {}
    /\ UNCHANGED <<prog, apply, opts, run, fs, dirs, i, exitCode, reorgVars>>
    /\ UNCHANGED <<plan, problems, errors, out, westVars>>
    /\ UNCHANGED <<manifest, jtVars, gsVars, titleVars>>

\* lines 176, 186: the new layout roots are not walked
InLayoutRoots(d) == Len(d) >= 1 /\ d[1] \in {"TV Shows", "_variants"}

\* iter_variant_files
iter_variant_files(f) == {p \in DOMAIN f : ~InLayoutRoots(p.dir) /\ EndsWith(p.name, SUFFIX)}

\* main, lines 337-347: one variant file; safe_rename is not guarded by a try
reorg_variant_step ==
    /\ prog = "reorg" /\ pc = "variants" /\ opts.move_variants
    /\ \E src \in iter_variant_files(fs) \ seen :
          LET dst == Path(<<"_variants">> \o src.dir, src.name)
          IN  /\ seen' = seen \cup {src}
              /\ IF apply
                 THEN /\ dirs' = ensure_parent(dirs, dst)
                      /\ \/ /\ fs' = Rename(fs, src, dst)
                            /\ lines' = Append(lines, Line("VARIANT_MOVE", NoEntry, src, dst, ""))
                            /\ UNCHANGED <<pc, exitCode>>
                         \/ /\ pc' = "crashed"
                            /\ exitCode' = 1
                            /\ UNCHANGED <<fs, lines>>
                 ELSE /\ lines' = Append(lines, Line("VARIANT_PLAN", NoEntry, src, dst, ""))
                      /\ UNCHANGED <<fs, dirs, pc, exitCode>>
    /\ UNCHANGED <<prog, apply, opts, run, i, entries, planned, missing, dup_permalink,
                   seen_coll_permalink, report>>
    /\ UNCHANGED <<plan, problems, errors, out, westVars>>
    /\ UNCHANGED <<manifest, jtVars, gsVars, titleVars>>

\* main, line 349: the variants phase is over or was not asked for
reorg_variants_done ==
    /\ prog = "reorg" /\ pc = "variants"
    /\ ~opts.move_variants \/ iter_variant_files(fs) \ seen = {}
    /\ pc' = "partials"
    /\ seen' = {}
    /\ UNCHANGED <<prog, apply, opts, run, fs, dirs, i, exitCode, reorgVars>>
    /\ UNCHANGED <<plan, problems, errors, out, westVars>>
    /\ UNCHANGED <<manifest, jtVars, gsVars, titleVars>>

\* tokens that contain the text ".part"
PartTokens == {".part", ".part1"}
FragTokens == {"-Frag1"}

\* iter_partials
iter_partials(f) ==
    {p \in DOMAIN f : /\ ~InLayoutRoots(p.dir)
                      /\ (Elems(p.name) \cap PartTokens # {} \/ EndsWith(p.name, <<".ytdl">>))}

\* strip_partial_suffix, on the name
strip_partial_suffix(name) ==
    LET n == IF EndsWith(name, <<".ytdl">>) THEN SubSeq(name, 1, Len(name) - 1) ELSE name
        L == Len(n)
        Cut(k) == SubSeq(n, 1, L - k)
    IN  IF L >= 3 /\ n[L - 2] = ".part" /\ n[L - 1] \in FragTokens /\ n[L] = ".part" THEN Cut(3)
        ELSE IF L >= 2 /\ n[L - 1] = ".part" /\ (n[L] \in FragTokens \/ n[L] = ".part") THEN Cut(2)
        ELSE IF L >= 1 /\ n[L] = ".part" THEN Cut(1)
        ELSE n

\* main, lines 350-360: one partial download
reorg_partial_step ==
    /\ prog = "reorg" /\ pc = "partials" /\ opts.delete_safe_partials
    /\ \E p \in iter_partials(fs) \ seen :
          LET base == Path(p.dir, strip_partial_suffix(p.name))
          IN  /\ seen' = seen \cup {p}
              /\ IF base \in DOMAIN fs
                 THEN IF apply
                      THEN /\ fs' = [q \in DOMAIN fs \ {p} |-> fs[q]]
                           /\ lines' = Append(lines, Line("PARTIAL_DELETE", NoEntry, p, NoPath, ""))
                      ELSE /\ lines' = Append(lines, Line("PARTIAL_PLAN_DELETE", NoEntry, p, NoPath, ""))
                           /\ UNCHANGED fs
                 ELSE /\ lines' = Append(lines, Line("PARTIAL_KEEP", NoEntry, p, NoPath, "no completed base"))
                      /\ UNCHANGED fs
    /\ UNCHANGED <<prog, apply, opts, pc, run, dirs, i, exitCode, entries, planned, missing,
                   dup_permalink, seen_coll_permalink, report>>
    /\ UNCHANGED <<plan, problems, errors, out, westVars>>
    /\ UNCHANGED <<manifest, jtVars, gsVars, titleVars>>

\* main, line 362: the partials phase is over or was not asked for
reorg_partials_done ==
    /\ prog = "reorg" /\ pc = "partials"
    /\ ~opts.delete_safe_partials \/ iter_partials(fs) \ seen = {}
    /\ pc' = "report"
    /\ UNCHANGED <<prog, apply, opts, run, fs, dirs, i, exitCode, reorgVars>>
    /\ UNCHANGED <<promoteVars, westVars>>
    /\ UNCHANGED <<manifest, jtVars, gsVars, titleVars>>

\* main, lines 363-377: the report file is written, in dry-run on a best-effort basis
reorg_write_report ==
    /\ prog = "reorg" /\ pc = "report"
    /\ \/ report' = lines
       \/ ~apply /\ UNCHANGED report
    /\ pc' = "done"
    /\ exitCode' = 0
    /\ UNCHANGED <<prog, apply, opts, run, fs, dirs, i, entries, planned, missing, dup_permalink,
                   seen_coll_permalink, lines>>
    /\ UNCHANGED <<promoteVars, westVars>>
    /\ UNCHANGED <<manifest, jtVars, gsVars, titleVars>>

ReorgNext ==
    \/ reorg_parse
    \/ reorg_plan_step
    \/ reorg_conflict_check
    \/ reorg_move_step
    \/ reorg_moves_done
    \/ reorg_variant_step
    \/ reorg_variants_done
    \/ reorg_partial_step
    \/ reorg_partials_done
    \/ reorg_write_report

SpecReorg == ReorgInit /\ [][ReorgNext]_vars

\* files of a tree with partial downloads
PartialFiles ==
    { Path(<<"K">>, <<"sugar", ".mp4">>),
      Path(<<"K">>, <<"sugar", ".mp4", ".part">>),
      Path(<<"K">>, <<"sugar", ".mp4", ".ytdl">>),
      Path(<<"K">>, <<"sugar", ".part1", ".mp4">>),
      Path(<<"K">>, <<"sugar", ".plex-appletv", ".mp4">>),
      Path(<<"K">>, <<"sugar", "-", "push", ".mp4", ".part">>) }

\* reorg_plex_tv started on a tree with partial downloads and a manifest of at most
\* one line
ReorgPartialsInit ==
    /\ prog = "reorg"
    /\ apply \in BOOLEAN
    /\ opts \in [move_variants : BOOLEAN, delete_safe_partials : BOOLEAN]
    /\ pc = "parse"
    /\ run = 1
    /\ fs \in Trees(PartialFiles)
    /\ dirs = DirsOf(fs)
    /\ i = 1
    /\ exitCode = 0
    /\ manifest \in {m \in Manifests : Len(m) <= 1}
    /\ entries = <<>>
    /\ planned = <<>>
    /\ missing = <<>>
    /\ dup_permalink = <<>>
    /\ seen_coll_permalink = {}
    /\ lines = <<>>
    /\ report = <<>>
    /\ seen = {}
    /\ plan = <<>>
    /\ problems = <<>>
    /\ errors = 0
    /\ out = <<>>
    /\ moves = <<>>
    /\ skipped = <<>>
    /\ jt_seasons = <<>>
    /\ titles = <<>>
    /\ section = <<>>
    /\ updates = <<>>
    /\ updated = 0
    /\ files = <<>>

SpecReorgPartials == ReorgPartialsInit /\ [][ReorgNext]_vars


(***************************************************************************)
(* reorganize_westcoast_privates.py; paths are relative to show_root       *)
(***************************************************************************)
SHOW_NAME == "westcoast - privates"

\* SEASON_MAP, keyed by the lower-cased leading word of a title
SEASON_MAP == [w \in {"Elina", "Glenn"} |->
                 IF w = "Elina" THEN [snum |-> 1, slabel |-> "Elina"]
                                ELSE [snum |-> 2, slabel |-> "Glenn"]]

OTHERS_SEASON == [snum |-> 3, slabel |-> "Others"]

\* f"Season {snum:02d} - {slabel}"
SeasonLabelDir == <<"Season 01 - Elina", "Season 02 - Glenn", "Season 03 - Others">>

WestName(sep, sn, ep, title, ext) == <<SHOW_NAME, sep, sn, "E", ep, " - ">> \o title \o <<ext>>

\* files the initial tree of westcoast may contain
WestFiles ==
    { Path(<<"Season 01">>, WestName(" - S", "01", "01", <<"Elina", "Sugar", "Push">>, ".mp4")),
      Path(<<"Season 01">>, WestName(" - S", "01", "02", <<"Glenn", "Sugar">>, ".mp4")),
      Path(<<"Season 01">>, WestName(" S", "01", "03", <<"Bob", "Sugar", "Push">>, ".mp4")),
      Path(<<"Season 01">>, WestName(" - S", "01", "04", <<"Elina">>, ".mp4")),
      Path(<<"Season 01">>, WestName(" - S", "01", "05", <<"Sugar">>, ".mov")),
      Path(<<"Season 01">>, WestName(" - S", "01", "07", <<"Elina", "Push">>, ".mp4")),
      Path(<<"Season 01 - Elina">>, WestName(" - S", "01", "01", <<"Push">>, ".mp4")),
      Path(<<"Season 01">>, <<"notes", ".mp4">>) }

\* position of a token in the character order of the strings in use
TokRank ==
    [t \in {"Season 01", "Season 01 - Elina", "Season 02", "Season 02 - Glenn", "Season 03 - Others",
            SHOW_NAME, "notes", " - S", " S", "E", " - ", "-",
            "00", "01", "02", "03", "04", "05", "06", "07", "08", "09",
            "Bob", "Elina", "Glenn", "Push", "Sugar", ".mov", ".mp4",
            " (2)", " (3)", " (4)", " (5)", " (6)", "1", "Extra", "JT Beginner", "JT Drills", "JT Zouk",
            "JT Blues", "Blues", "Zouk",
            " [1]", "src", "dst", "_variants", "Content", "Basics", "Turns", "Top", "Sub", "Deep",
            "S01E02",
            "JTSwing", "Left", "readme", ".txt",
            " ", ":", "Coll", "Extras", "GarySusan", "Season 01 - Cat - Coll", "X", "[1]", "[2]"} |->
        CASE t = " " -> 1 [] t = ":" -> 196 [] t = "Coll" -> 205 [] t = "Extras" -> 226
          [] t = "GarySusan" -> 228 [] t = "Season 01 - Cat - Coll" -> 305
          [] t = "X" -> 360 [] t = "[1]" -> 370 [] t = "[2]" -> 371
          [] t = " (2)" -> 2 [] t = " (3)" -> 3 [] t = " (4)" -> 4 [] t = " (5)" -> 5 [] t = " (6)" -> 6
          [] t = " - S" -> 10 [] t = " S" -> 20 [] t = " - " -> 30 [] t = "-" -> 40
          [] t = "00" -> 100 [] t = "01" -> 110 [] t = "02" -> 120 [] t = "03" -> 130
          [] t = "04" -> 140 [] t = "05" -> 150 [] t = "06" -> 160 [] t = "07" -> 170
          [] t = "08" -> 180 [] t = "09" -> 190 [] t = "1" -> 195
          [] t = "Bob" -> 200 [] t = "E" -> 210 [] t = "Elina" -> 220 [] t = "Extra" -> 225
          [] t = "Glenn" -> 230 [] t = "JT Beginner" -> 232 [] t = "JT Blues" -> 233
          [] t = " [1]" -> 35 [] t = "Basics" -> 197 [] t = "Content" -> 206 [] t = "Deep" -> 207
          [] t = "S01E02" -> 290 [] t = "Sub" -> 349 [] t = "Top" -> 355 [] t = "Turns" -> 356
          [] t = "_variants" -> 380 [] t = "dst" -> 395 [] t = "src" -> 407
          [] t = "Blues" -> 198 [] t = "Zouk" -> 365 [] t = "JT Drills" -> 234
          [] t = "JT Zouk" -> 235 [] t = "JTSwing" -> 236 [] t = "Left" -> 238
          [] t = "Push" -> 240
          [] t = "Season 01" -> 300 [] t = "Season 01 - Elina" -> 310 [] t = "Season 02" -> 320
          [] t = "Season 02 - Glenn" -> 330 [] t = "Season 03 - Others" -> 340
          [] t = "Sugar" -> 350 [] t = "notes" -> 400 [] t = "readme" -> 405 [] t = SHOW_NAME -> 410
          [] t = ".mov" -> 500 [] t = ".mp4" -> 510 [] t = ".txt" -> 520]

RECURSIVE SeqLess(_, _)
\* lexicographic order of two token sequences
SeqLess(a, b) ==
    IF b = <<>> THEN FALSE
    ELSE IF a = <<>> THEN TRUE
    ELSE IF a[1] # b[1] THEN TokRank[a[1]] < TokRank[b[1]]
    ELSE SeqLess(Tail(a), Tail(b))

\* the order sorted() puts two paths in
PathLess(p, q) == IF p.dir # q.dir THEN SeqLess(p.dir, q.dir) ELSE SeqLess(p.name, q.name)

RECURSIVE SortedPaths(_)
SortedPaths(S) ==
    IF S = {} THEN <<>>
    ELSE LET m == CHOOSE p \in S : \A q \in S \ {p} : PathLess(p, q)
         IN  <<m>> \o SortedPaths(S \ {m})

\* EPISODE_RE matches the stem: show, " - S" or " S", sn, "E", ep, " - ", a non-empty title
EPISODE_RE(n) ==
    /\ Len(n) >= 8
    /\ n[2] \in {" - S", " S"}
    /\ n[4] = "E"
    /\ n[6] = " - "

\* p.suffix.lower() in (".mp4", ".mov")
IsVideo(n) == Len(n) >= 1 /\ n[Len(n)] \in {".mp4", ".mov"}

\* collect_episodes: (path, title) in sorted path order
collect_episodes(f) ==
    LET ok(p) == IsVideo(p.name) /\ EPISODE_RE(p.name)
        eps == SelectSeq(SortedPaths(DOMAIN f), ok)
    IN  [k \in 1..Len(eps) |->
            [path |-> eps[k], title |-> SubSeq(eps[k].name, 7, Len(eps[k].name) - 1)]]

RECURSIVE LStripDash(_)
\* .lstrip(" -_")
LStripDash(t) == IF Len(t) > 0 /\ t[1] = "-" THEN LStripDash(Tail(t)) ELSE t

\* classify_title, on the words of the title
classify_title(title) ==
    IF title[1] \in DOMAIN SEASON_MAP
    THEN [snum |-> SEASON_MAP[title[1]].snum, slabel |-> SEASON_MAP[title[1]].slabel,
          stripped |-> LStripDash(Tail(title))]
    ELSE [snum |-> OTHERS_SEASON.snum, slabel |-> OTHERS_SEASON.slabel,
          stripped |-> IF Len(title) >= 2 /\ title[1] # "-" THEN Tail(title) ELSE title]

\* the planner with the episode number parsed from the source name kept
plan_reorganization_KeepOrdinals(episodes) ==
    LET InSeason(sn) == LET is(e) == classify_title(e.title).snum = sn
                        IN  SelectSeq(episodes, is)
        MovesOf(sn) ==
            LET group == InSeason(sn)
            IN  [k \in 1..Len(group) |->
                    [src |-> group[k].path,
                     dst |-> Path(<<SeasonLabelDir[sn]>>,
                                  <<SHOW_NAME, " - S", Num2(sn), "E", group[k].path.name[5], " - ">>
                                  \o classify_title(group[k].title).stripped
                                  \o <<group[k].path.name[Len(group[k].path.name)]>>)]]
    IN  MovesOf(1) \o MovesOf(2) \o MovesOf(3)

\* plan_reorganization: buckets in season order, episodes numbered from 1 in each
plan_reorganization(episodes) ==
    LET InSeason(sn) == LET is(e) == classify_title(e.title).snum = sn
                        IN  SelectSeq(episodes, is)
        MovesOf(sn) ==
            LET group == InSeason(sn)
            IN  [k \in 1..Len(group) |->
                    [src |-> group[k].path,
                     dst |-> Path(<<SeasonLabelDir[sn]>>,
                                  <<SHOW_NAME, " - S", Num2(sn), "E", Num2(k), " - ">>
                                  \o classify_title(group[k].title).stripped
                                  \o <<group[k].path.name[Len(group[k].path.name)]>>)]]
    IN  MovesOf(1) \o MovesOf(2) \o MovesOf(3)

WestInit ==
    /\ prog = "westcoast"
    /\ apply \in BOOLEAN
    /\ opts = [show_title |-> SHOW_NAME]
    /\ pc = "plan"
    /\ run = 1
    /\ fs \in Trees(WestFiles)
    /\ dirs = DirsOf(fs)
    /\ i = 1
    /\ exitCode = 0
    /\ moves = <<>>
    /\ entries = <<>>
    /\ planned = <<>>
    /\ missing = <<>>
    /\ dup_permalink = <<>>
    /\ seen_coll_permalink = {}
    /\ lines = <<>>
    /\ report = <<>>
    /\ seen = {}
    /\ plan = <<>>
    /\ problems = <<>>
    /\ errors = 0
    /\ out = <<>>
    /\ manifest = <<>>
    /\ skipped = <<>>
    /\ jt_seasons = <<>>
    /\ titles = <<>>
    /\ section = <<>>
    /\ updates = <<>>
    /\ updated = 0
    /\ files = <<>>

\* main, lines 292-296
west_plan ==
    /\ prog = "westcoast" /\ pc = "plan"
    /\ moves' = plan_reorganization(collect_episodes(fs))
    /\ i' = 1
    /\ pc' = "moves"
    /\ UNCHANGED <<prog, apply, opts, run, fs, dirs, exitCode, promoteVars, reorgVars>>
    /\ UNCHANGED <<manifest, jtVars, gsVars, titleVars>>

\* apply_moves, one iteration; line 165 raises ValueError when dst is not below
\* src.parent.parent.parent, and src.rename (line 167) is not guarded by a try, so a
\* failure of the rename ends the run
apply_moves_step ==
    /\ prog = "westcoast" /\ pc = "moves" /\ i <= Len(moves)
    /\ LET src == moves[i].src
           dst == moves[i].dst
       IN  IF Len(src.dir) >= 3 /\ src.dir[1] # dst.dir[1]
           THEN /\ pc' = "crashed"
                /\ exitCode' = 1
                /\ dirs' = IF apply THEN ensure_parent(dirs, dst) ELSE dirs
                /\ UNCHANGED <<fs, i>>
           ELSE /\ dirs' = IF apply THEN ensure_parent(dirs, dst) ELSE dirs
                /\ \/ /\ fs' = IF apply THEN Rename(fs, src, dst) ELSE fs
                      /\ i' = i + 1
                      /\ UNCHANGED <<pc, exitCode>>
                   \/ /\ apply
                      /\ pc' = "crashed"
                      /\ exitCode' = 1
                      /\ UNCHANGED <<fs, i>>
    /\ UNCHANGED <<prog, apply, opts, run, moves, promoteVars, reorgVars>>
    /\ UNCHANGED <<manifest, jtVars, gsVars, titleVars>>

\* remove_empty_dirs: old-style "Season NN" directories that are now empty
remove_empty_dirs(f, ds) ==
    ds \ {d \in ds : /\ Len(d) = 1
                     /\ d[1] \in {"Season 01", "Season 02"}
                     /\ ~\E p \in DOMAIN f : p.dir = d
                     /\ ~\E x \in ds : Len(x) > 1 /\ x[1] = d[1]}

\* main, lines 299-312; the Plex phase talks to the server only
west_finish ==
    /\ prog = "westcoast" /\ pc = "moves" /\ i > Len(moves)
    /\ dirs' = IF apply THEN remove_empty_dirs(fs, dirs) ELSE dirs
    /\ pc' = "done"
    /\ exitCode' = 0
    /\ UNCHANGED <<prog, apply, opts, run, fs, i, moves, promoteVars, reorgVars>>
    /\ UNCHANGED <<manifest, jtVars, gsVars, titleVars>>

\* the script is started again on the tree it left
west_rerun ==
    /\ prog = "westcoast" /\ pc = "done"
    /\ run < MaxRuns
    /\ run' = run + 1
    /\ pc' = "plan"
    /\ moves' = <<>>
    /\ i' = 1
    /\ UNCHANGED <<prog, apply, opts, fs, dirs, exitCode, promoteVars, reorgVars>>
    /\ UNCHANGED <<manifest, jtVars, gsVars, titleVars>>

WestNext ==
    \/ west_plan
    \/ apply_moves_step
    \/ west_finish
    \/ west_rerun

SpecWest == WestInit /\ [][WestNext]_vars

(***************************************************************************)
(* tmp-scripts/jtswing_single_show.py; --show keeps its default            *)
(***************************************************************************)
JtShow == "JTSwing"

PREFERRED_ORDER ==
    <<"Beginner", "Intermediate", "Advanced All-Star", "Drills", "Footwork", "Connection",
      "Musicality", "Concepts", "Old School Moves">>

\* name[3:].strip() for the directory names that start with "JT "
JtCategory == [d \in {"JT Beginner", "JT Blues", "JT Drills", "JT Zouk"} |->
                 CASE d = "JT Beginner" -> "Beginner" [] d = "JT Blues" -> "Blues"
                   [] d = "JT Drills" -> "Drills" [] OTHER -> "Zouk"]

\* safe_component(f"Season {s:02d} - {cat}")
JtSeasonDir ==
    [s \in 1..4, c \in {"Beginner", "Blues", "Drills", "Zouk"} |->
        CASE s = 1 /\ c = "Beginner" -> "Season 01 - Beginner"
          [] s = 1 /\ c = "Blues" -> "Season 01 - Blues"
          [] s = 1 /\ c = "Drills" -> "Season 01 - Drills"
          [] s = 1 /\ c = "Zouk" -> "Season 01 - Zouk"
          [] s = 2 /\ c = "Beginner" -> "Season 02 - Beginner"
          [] s = 2 /\ c = "Blues" -> "Season 02 - Blues"
          [] s = 2 /\ c = "Drills" -> "Season 02 - Drills"
          [] s = 2 /\ c = "Zouk" -> "Season 02 - Zouk"
          [] s = 3 /\ c = "Beginner" -> "Season 03 - Beginner"
          [] s = 3 /\ c = "Blues" -> "Season 03 - Blues"
          [] s = 3 /\ c = "Drills" -> "Season 03 - Drills"
          [] s = 3 /\ c = "Zouk" -> "Season 03 - Zouk"
          [] s = 4 /\ c = "Beginner" -> "Season 04 - Beginner"
          [] s = 4 /\ c = "Blues" -> "Season 04 - Blues"
          [] s = 4 /\ c = "Drills" -> "Season 04 - Drills"
          [] OTHER -> "Season 04 - Zouk"]

\* int() of the episode digits of a file name
JtInt == [t \in {"01", "1", "02"} |-> IF t = "02" THEN 2 ELSE 1]

JtName(prefix, e, title) == <<prefix, " - S", "01", "E", e, " - ">> \o title \o MP4

\* files the initial tree of jtswing may contain
JtFiles ==
    { Path(<<"JT Beginner">>, JtName("JT Beginner", "01", <<"Left">>)),
      Path(<<"JT Beginner">>, JtName("Extra", "01", <<"Left">>)),
      Path(<<"JT Beginner">>, JtName("JT Beginner", "1", <<"Left">>)),
      Path(<<"JT Beginner">>, JtName("JT Beginner", "02", <<"Left">>)),
      Path(<<"JT Beginner">>, <<"notes", ".mp4">>),
      Path(<<"JT Beginner">>, <<"readme", ".txt">>),
      Path(<<"JT Drills">>, JtName("JT Drills", "01", <<"Left">>)),
      Path(<<"JT Zouk">>, JtName("JT Zouk", "01", <<"Left">>)),
      Path(<<"JT Blues">>, JtName("JT Blues", "01", <<"Left">>)),
      Path(<<JtShow, "Season 01 - Beginner">>, JtName(JtShow, "01", <<"Left">>)),
      Path(<<JtShow, "Season 01 - Beginner">>, JtName(JtShow, "01", <<"Left", " (2)">>)) }

\* EP_RE: prefix, " - S", two digits, "E", digits, " - ", a non-empty title, ".mp4"
EP_RE(n) ==
    /\ Len(n) >= 8
    /\ n[2] = " - S"
    /\ n[4] = "E"
    /\ n[5] \in DOMAIN JtInt
    /\ n[6] = " - "
    /\ n[Len(n)] = ".mp4"

\* f" ({n})"
DupMark(n) == <<" (0)", " (1)", " (2)", " (3)", " (4)", " (5)", " (6)", " (7)", " (8)">>[n + 1]

\* base + f" ({n})" + ext
WithDupMark(path, n) ==
    Path(path.dir, SubSeq(path.name, 1, Len(path.name) - 1) \o <<DupMark(n)>>
                   \o <<path.name[Len(path.name)]>>)

\* unique_path against the files of f
unique_path(f, path) ==
    IF path \notin DOMAIN f THEN path
    ELSE WithDupMark(path, CHOOSE n \in 2..8 :
                              /\ WithDupMark(path, n) \notin DOMAIN f
                              /\ \A k \in 2..(n - 1) : WithDupMark(path, k) \in DOMAIN f)

RECURSIVE SortedNames(_)
\* sorted() of a set of names (token sequences)
SortedNames(S) ==
    IF S = {} THEN <<>>
    ELSE LET m == CHOOSE a \in S : \A b \in S \ {a} : SeqLess(a, b)
         IN  <<m>> \o SortedNames(S \ {m})

\* os.listdir(root) restricted to the directories named "JT ...": any order
JtListings(ds) ==
    LET names == existing_dirs(ds) \cap DOMAIN JtCategory
    IN  {l \in [1..Cardinality(names) -> names] : \A j, k \in DOMAIN l : j # k => l[j] # l[k]}

\* main, lines 70-78: the directories of root named "JT ...", in sorted order
cat_dirs(listing) ==
    LET sorted == SortedNames({<<d>> : d \in Elems(listing)})
    IN  [k \in 1..Len(sorted) |-> sorted[k][1]]

\* the extra categories in the order the directories were listed, without sorted()
jt_season_order_Unsorted(listing) ==
    LET cats == {JtCategory[d] : d \in Elems(listing)}
        InCats(c) == c \in cats
        NotPreferred(d) == JtCategory[d] \notin Elems(PREFERRED_ORDER)
        extras == SelectSeq(listing, NotPreferred)
    IN  SelectSeq(PREFERRED_ORDER, InCats) \o [k \in 1..Len(extras) |-> JtCategory[extras[k]]]

\* main, lines 80-92: PREFERRED_ORDER first, the other categories in sorted order
jt_season_order(listing) ==
    LET cats == {JtCategory[d] : d \in Elems(cat_dirs(listing))}
        InCats(c) == c \in cats
        preferred == SelectSeq(PREFERRED_ORDER, InCats)
        extras == {<<c>> : c \in cats \ Elems(PREFERRED_ORDER)}
        sorted == SortedNames(extras)
    IN  preferred \o [k \in 1..Len(sorted) |-> sorted[k][1]]

\* main, line 93
jt_season_num(listing, c) ==
    CHOOSE k \in 1..Len(jt_season_order(listing)) : jt_season_order(listing)[k] = c

\* main, lines 108-115: the destination computed for one matching file
JtDst(f, listing, cat, n) ==
    LET s == jt_season_num(listing, cat)
        title == SubSeq(n, 7, Len(n) - 1)
        new_fn == <<JtShow, " - S", Num2(s), "E", Num2(JtInt[n[5]]), " - ">> \o title \o MP4
    IN  unique_path(f, Path(<<JtShow, JtSeasonDir[s, cat]>>, new_fn))

\* main, lines 100-117, for one category directory: (planned, skipped)
JtPlanDir(f, listing, d) ==
    LET names == SortedNames({p.name : p \in listdir(f, <<d>>)})
        IsMp4(n) == EndsWith(n, MP4)
        Matches(n) == IsMp4(n) /\ EP_RE(n)
        Skips(n) == IsMp4(n) /\ ~EP_RE(n)
        hit == SelectSeq(names, Matches)
        miss == SelectSeq(names, Skips)
    IN  [planned |-> [k \in 1..Len(hit) |->
                        [src |-> Path(<<d>>, hit[k]), dst |-> JtDst(f, listing, JtCategory[d], hit[k])]],
         skipped |-> [k \in 1..Len(miss) |-> Path(<<d>>, miss[k])]]

RECURSIVE JtPlan(_, _, _)
\* main, lines 96-117: the loop over cat_dirs
JtPlan(f, listing, cds) ==
    IF cds = <<>> THEN [planned |-> <<>>, skipped |-> <<>>]
    ELSE LET before == JtPlan(f, listing, SubSeq(cds, 1, Len(cds) - 1))
             here == JtPlanDir(f, listing, cds[Len(cds)])
         IN  [planned |-> before.planned \o here.planned, skipped |-> before.skipped \o here.skipped]

JtInit ==
    /\ prog = "jtswing"
    /\ apply \in BOOLEAN
    /\ opts = [show |-> JtShow]
    /\ pc = "plan"
    /\ run = 1
    /\ fs \in Trees(JtFiles)
    /\ dirs = DirsOf(fs)
    /\ i = 1
    /\ exitCode = 0
    /\ planned = <<>>
    /\ skipped = <<>>
    /\ jt_seasons = <<>>
    /\ report = <<>>
    /\ entries = <<>>
    /\ manifest = <<>>
    /\ missing = <<>>
    /\ dup_permalink = <<>>
    /\ seen_coll_permalink = {}
    /\ lines = <<>>
    /\ seen = {}
    /\ plan = <<>>
    /\ problems = <<>>
    /\ errors = 0
    /\ out = <<>>
    /\ moves = <<>>
    /\ titles = <<>>
    /\ section = <<>>
    /\ updates = <<>>
    /\ updated = 0
    /\ files = <<>>

\* main, lines 69-117: categories, season numbers and the planned moves
jt_plan ==
    /\ prog = "jtswing" /\ pc = "plan"
    /\ \E listing \in JtListings(dirs) :
         LET r == JtPlan(fs, listing, cat_dirs(listing))
         IN  /\ planned' = r.planned
             /\ skipped' = r.skipped
             /\ jt_seasons' = jt_season_order(listing)
    /\ pc' = "planned"
    /\ UNCHANGED <<prog, apply, opts, run, fs, dirs, i, exitCode, promoteVars, westVars>>
    /\ UNCHANGED <<entries, missing, dup_permalink, seen_coll_permalink, lines, report>>
    /\ UNCHANGED <<manifest, gsVars, titleVars>>

\* main, lines 119-135: without --apply print and return; with it create the show
\* directory and open the report
jt_summary ==
    /\ prog = "jtswing" /\ pc = "planned"
    /\ IF ~apply
       THEN /\ pc' = "done"
            /\ exitCode' = 0
            /\ UNCHANGED <<dirs, report, i>>
       ELSE /\ pc' = "moves"
            /\ dirs' = dirs \cup {<<JtShow>>}
            /\ report' = <<[action |-> "action", src |-> NoPath, dst |-> NoPath]>>
            /\ i' = 1
            /\ UNCHANGED exitCode
    /\ UNCHANGED <<prog, apply, opts, run, fs, promoteVars, westVars>>
    /\ UNCHANGED <<entries, planned, missing, dup_permalink, seen_coll_permalink, lines>>
    /\ UNCHANGED <<manifest, jtVars, gsVars, titleVars>>

\* main, lines 136-139: one planned move; os.rename is not guarded by a try, so a
\* failure ends the run
jt_move_step ==
    /\ prog = "jtswing" /\ pc = "moves" /\ i <= Len(planned)
    /\ LET src == planned[i].src
           dst == planned[i].dst
       IN  /\ dirs' = ensure_parent(dirs, dst)
           /\ \/ /\ fs' = Rename(fs, src, dst)
                 /\ report' = Append(report, [action |-> "MOVE", src |-> src, dst |-> dst])
                 /\ i' = i + 1
                 /\ UNCHANGED <<pc, exitCode>>
              \/ /\ pc' = "crashed"
                 /\ exitCode' = 1
                 /\ UNCHANGED <<fs, report, i>>
    /\ UNCHANGED <<prog, apply, opts, run, promoteVars, westVars>>
    /\ UNCHANGED <<entries, planned, missing, dup_permalink, seen_coll_permalink, lines>>
    /\ UNCHANGED <<manifest, jtVars, gsVars, titleVars>>

\* main, lines 141-149: the category directories left empty are removed
jt_cleanup ==
    /\ prog = "jtswing" /\ pc = "moves" /\ i > Len(planned)
    /\ dirs' = dirs \ {d \in dirs : /\ Len(d) = 1 /\ d[1] \in DOMAIN JtCategory
                                    /\ listdir(fs, d) = {}
                                    /\ ~\E x \in dirs : Len(x) > 1 /\ x[1] = d[1]}
    /\ pc' = "done"
    /\ exitCode' = 0
    /\ UNCHANGED <<prog, apply, opts, run, fs, i, promoteVars, westVars, reorgVars>>
    /\ UNCHANGED <<manifest, jtVars, gsVars, titleVars>>

JtNext ==
    \/ jt_plan
    \/ jt_summary
    \/ jt_move_step
    \/ jt_cleanup

SpecJt == JtInit /\ [][JtNext]_vars

(***************************************************************************)
(* Title normalisation: scripts/garysusan_rename_episode_files.py and       *)
(* scripts/plex_title_from_filename.py.  A title is a sequence of tokens:   *)
(* words, " " for one whitespace character, "-" and ":" for the separators, *)
(* "[1]" "[2]" for bracketed numeric ids, "(2)" for a duplicate marker and  *)
(* "(cid 7)" for a cid marker.                                              *)
(***************************************************************************)
MaxTitleLen == 4
MaxNormalizations == 2
MaxEpisodes == 2

BracketIds == {"[1]", "[2]"}
DupMarkers == {"(2)"}
CidMarkers == {"(cid 7)"}

RECURSIVE LStripBlank(_)
LStripBlank(t) == IF Len(t) > 0 /\ t[1] = " " THEN LStripBlank(Tail(t)) ELSE t

RECURSIVE RStripBlank(_)
RStripBlank(t) == IF Len(t) > 0 /\ t[Len(t)] = " " THEN RStripBlank(SubSeq(t, 1, Len(t) - 1)) ELSE t

\* str.strip()
Strip(t) == RStripBlank(LStripBlank(t))

\* RE.sub("", t) for an end-anchored pattern \s*<marker>\s*$
SubTrailing(t, markers) ==
    LET u == RStripBlank(t)
    IN  IF Len(u) > 0 /\ u[Len(u)] \in markers
        THEN RStripBlank(SubSeq(u, 1, Len(u) - 1))
        ELSE t

\* WS_RE.sub(" ", t).strip()
NormWs(t) == Strip(CollapseWs(t))

RECURSIVE DropVolume(_)
\* re.sub(r"\bVolume\s+", "", c)
DropVolume(c) ==
    IF c = <<>> THEN <<>>
    ELSE IF c[1] = "Volume" /\ Len(c) >= 2 /\ c[2] = " " THEN DropVolume(LStripBlank(Tail(c)))
    ELSE <<c[1]>> \o DropVolume(Tail(c))

\* c.replace(" and ", " & ") and c.replace(" & ", " and ")
ReplaceWord(c, from, to) ==
    [k \in 1..Len(c) |->
        IF c[k] = from /\ k > 1 /\ k < Len(c) /\ c[k - 1] = " " /\ c[k + 1] = " " THEN to ELSE c[k]]

\* candidate_prefixes
candidate_prefixes(collection) ==
    LET c == Strip(collection)
        outs == {c, Strip(DropVolume(c)), ReplaceWord(c, "and", "&"), ReplaceWord(c, "&", "and")}
    IN  {NormWs(x) : x \in outs} \ {<<>>}

\* the text left when rx of strip_prefix matches t for prefix p: p, \s*, one of - : , \s*
AfterPrefix(t, p) ==
    LET rest == LStripBlank(SubSeq(t, Len(p) + 1, Len(t)))
    IN  LStripBlank(Tail(rest))

PrefixMatches(t, p) ==
    /\ StartsWith(t, p)
    /\ LET rest == LStripBlank(SubSeq(t, Len(p) + 1, Len(t)))
       IN  Len(rest) > 0 /\ rest[1] \in {"-", ":"}

\* strip_prefix
strip_prefix(title, prefixes) ==
    IF \E p \in prefixes : PrefixMatches(title, p)
    THEN Strip(AfterPrefix(title, CHOOSE p \in prefixes : PrefixMatches(title, p)))
    ELSE Strip(title)

\* garysusan main, line 94
GsTitle(raw) == Strip(SubTrailing(raw, BracketIds))

\* garysusan main, lines 95-96
GsNewTitle(raw, prefixes) == NormWs(strip_prefix(GsTitle(raw), prefixes))

\* title_from_file_path, lines 116-119 (and 123-126)
FpTitle(raw) ==
    NormWs(SubTrailing(SubTrailing(SubTrailing(raw, BracketIds), CidMarkers), DupMarkers))

\* TITLE_FROM_BASENAME_RE on a base name given as tokens: the title group, <<>> for no match
TITLE_FROM_BASENAME_RE(base) ==
    IF Len(base) >= 8 /\ base[2] = " - S" /\ base[4] = "E" /\ base[6] = " - "
    THEN SubSeq(base, 7, Len(base) - 1)
    ELSE IF Len(base) >= 7 /\ base[1] = "S" /\ base[3] = "E" /\ base[5] = " - "
    THEN SubSeq(base, 6, Len(base) - 1)
    ELSE <<>>

\* title_from_file_path; <<>> stands for None
title_from_file_path(base) ==
    IF TITLE_FROM_BASENAME_RE(base) # <<>>
    THEN FpTitle(TITLE_FROM_BASENAME_RE(base))
    ELSE FpTitle(SubSeq(base, 1, Len(base) - 1))

TitleTokens == {"X", "Coll", "-", " ", "[1]", "(2)", "(cid 7)"}

\* raw titles: what the title group of the file-name patterns can capture
RawTitles == UNION {[1..n -> TitleTokens] : n \in 1..MaxTitleLen}

\* the collection of the season directory the garysusan titles are read in
TitleCollection == <<"Coll">>

TitleInit ==
    /\ prog = "title"
    /\ apply = FALSE
    /\ opts \in [normalizer : {"garysusan", "title_from_file_path"}]
    /\ pc = "normalize"
    /\ run = 1
    /\ titles \in {<<raw>> : raw \in RawTitles}
    /\ section = <<>>
    /\ updates = <<>>
    /\ updated = 0
    /\ fs = <<>>
    /\ dirs = {}
    /\ i = 1
    /\ exitCode = 0
    /\ planned = <<>>
    /\ skipped = <<>>
    /\ jt_seasons = <<>>
    /\ files = <<>>
    /\ report = <<>>
    /\ entries = <<>>
    /\ manifest = <<>>
    /\ missing = <<>>
    /\ dup_permalink = <<>>
    /\ seen_coll_permalink = {}
    /\ lines = <<>>
    /\ seen = {}
    /\ plan = <<>>
    /\ problems = <<>>
    /\ errors = 0
    /\ out = <<>>
    /\ moves = <<>>

\* the normalisation of garysusan main (lines 94-96) applied to the last title
normalize_garysusan ==
    /\ prog = "title" /\ opts.normalizer = "garysusan"
    /\ Len(titles) <= MaxNormalizations
    /\ titles[Len(titles)] # <<>>
    /\ titles' = Append(titles, GsNewTitle(titles[Len(titles)], candidate_prefixes(TitleCollection)))
    /\ UNCHANGED <<prog, apply, opts, pc, run, fs, dirs, i, exitCode, promoteVars, reorgVars, westVars>>
    /\ UNCHANGED <<manifest, jtVars, gsVars, plexVars>>

\* title_from_file_path applied to a file name that carries the last title
normalize_from_file_path ==
    /\ prog = "title" /\ opts.normalizer = "title_from_file_path"
    /\ Len(titles) <= MaxNormalizations
    /\ titles[Len(titles)] # <<>>
    /\ titles' = Append(titles, title_from_file_path(
                      <<"Show", " - S", "01", "E", "01", " - ">> \o titles[Len(titles)] \o MP4))
    /\ UNCHANGED <<prog, apply, opts, pc, run, fs, dirs, i, exitCode, promoteVars, reorgVars, westVars>>
    /\ UNCHANGED <<manifest, jtVars, gsVars, plexVars>>

TitleNext ==
    \/ normalize_garysusan
    \/ normalize_from_file_path

SpecTitle == TitleInit /\ [][TitleNext]_vars

(***************************************************************************)
(* scripts/garysusan_rename_episode_files.py                                *)
(***************************************************************************)
\* SEASON_DIR_RE: the coll group of the directory names that match
GsSeasonColl == [d \in {"Season 01 - Cat - Coll"} |-> <<"Coll">>]

GsName(s, e, title) == <<"GarySusan", " - S", s, "E", e, " - ">> \o title \o MP4

\* files the initial tree of garysusan may contain
GsFiles ==
    { Path(<<"Season 01 - Cat - Coll">>, GsName("01", "01", <<"Coll", " ", "-", " ", "X">>)),
      Path(<<"Season 01 - Cat - Coll">>, GsName("01", "01", <<"Coll", ":", " ", "X">>)),
      Path(<<"Season 01 - Cat - Coll">>, GsName("01", "01", <<"X">>)),
      Path(<<"Season 01 - Cat - Coll">>, GsName("01", "01", <<"X", " ", "[1]">>)),
      Path(<<"Season 01 - Cat - Coll">>, GsName("01", "02", <<"Coll", " ", "-", " ", "X", " ", "[1]">>)),
      Path(<<"Season 01 - Cat - Coll">>, GsName("01", "03", <<"Coll", " ", "-">>)),
      Path(<<"Season 01 - Cat - Coll">>, <<"notes", ".mp4">>),
      Path(<<"Extras">>, GsName("01", "01", <<"Coll", " ", "-", " ", "X">>)) }

\* EP_FILE_RE: "GarySusan", " - S", two digits, "E", digits, " - ", a non-empty title, ".mp4"
EP_FILE_RE(n) ==
    /\ Len(n) >= 8
    /\ n[1] = "GarySusan"
    /\ n[2] = " - S"
    /\ n[4] = "E"
    /\ n[6] = " - "
    /\ n[Len(n)] = ".mp4"

\* fm.group("title")
GsRawTitle(n) == SubSeq(n, 7, Len(n) - 1)

\* main, lines 86-91, for one season directory: the names the inner loop works on
GsDirFiles(f, d) ==
    LET names == SortedNames({p.name : p \in listdir(f, <<d>>)})
        ok(n) == EndsWith(n, MP4) /\ EP_FILE_RE(n)
        hit == SelectSeq(names, ok)
    IN  [k \in 1..Len(hit) |-> Path(<<d>>, hit[k])]

RECURSIVE GsWalk(_, _)
\* main, lines 74-91: the season directories in sorted order, their files in sorted order
GsWalk(f, ds) ==
    IF ds = <<>> THEN <<>>
    ELSE GsWalk(f, SubSeq(ds, 1, Len(ds) - 1)) \o GsDirFiles(f, ds[Len(ds)][1])

\* main, lines 93-103: (title, new_title, destination) for one episode file
GsPlanOne(f, p) ==
    LET raw == GsRawTitle(p.name)
        title == GsTitle(raw)
        new_title == GsNewTitle(raw, candidate_prefixes(GsSeasonColl[p.dir[1]]))
    IN  [title |-> title, new_title |-> new_title,
         dst |-> unique_path(f, Path(p.dir, GsName(p.name[3], p.name[5], new_title)))]

GsInit ==
    /\ prog = "garysusan"
    /\ apply \in BOOLEAN
    /\ opts = <<>>
    /\ pc = "list"
    /\ run = 1
    /\ fs \in Trees(GsFiles)
    /\ dirs = DirsOf(fs)
    /\ i = 1
    /\ exitCode = 0
    /\ planned = <<>>
    /\ files = <<>>
    /\ skipped = <<>>
    /\ jt_seasons = <<>>
    /\ report = <<>>
    /\ entries = <<>>
    /\ manifest = <<>>
    /\ missing = <<>>
    /\ dup_permalink = <<>>
    /\ seen_coll_permalink = {}
    /\ lines = <<>>
    /\ seen = {}
    /\ plan = <<>>
    /\ problems = <<>>
    /\ errors = 0
    /\ out = <<>>
    /\ moves = <<>>
    /\ titles = <<>>
    /\ section = <<>>
    /\ updates = <<>>
    /\ updated = 0

\* main, lines 74-91: the directory listings; a rename stays inside its season
\* directory and never lands on an existing name, so the files the loops reach are
\* those listed at the start
gs_list ==
    /\ prog = "garysusan" /\ pc = "list"
    /\ files' = GsWalk(fs, SortedNames({<<d>> : d \in existing_dirs(dirs) \cap DOMAIN GsSeasonColl}))
    /\ i' = 1
    /\ pc' = "files"
    /\ UNCHANGED <<prog, apply, opts, run, fs, dirs, exitCode, promoteVars, reorgVars, westVars>>
    /\ UNCHANGED <<manifest, jtVars, titleVars>>

\* main, lines 93-112: one episode file; os.rename is not guarded by a try
gs_file_step ==
    /\ prog = "garysusan" /\ pc = "files" /\ i <= Len(files)
    /\ LET p == files[i]
           r == GsPlanOne(fs, p)
       IN  IF r.new_title = r.title
           THEN /\ i' = i + 1
                /\ UNCHANGED <<fs, planned, pc, exitCode>>
           ELSE /\ planned' = Append(planned, [src |-> p, dst |-> r.dst])
                /\ IF apply
                   THEN \/ /\ fs' = Rename(fs, p, r.dst)
                           /\ i' = i + 1
                           /\ UNCHANGED <<pc, exitCode>>
                        \/ /\ pc' = "crashed"
                           /\ exitCode' = 1
                           /\ UNCHANGED <<fs, i>>
                   ELSE /\ i' = i + 1
                        /\ UNCHANGED <<fs, pc, exitCode>>
    /\ UNCHANGED <<prog, apply, opts, run, dirs, promoteVars, westVars>>
    /\ UNCHANGED <<entries, missing, dup_permalink, seen_coll_permalink, lines, report>>
    /\ UNCHANGED <<manifest, jtVars, gsVars, titleVars>>

\* main, lines 114-117
gs_finish ==
    /\ prog = "garysusan" /\ pc = "files" /\ i > Len(files)
    /\ pc' = "done"
    /\ exitCode' = 0
    /\ UNCHANGED <<prog, apply, opts, run, fs, dirs, i, promoteVars, reorgVars, westVars>>
    /\ UNCHANGED <<manifest, jtVars, gsVars, titleVars>>

GsNext ==
    \/ gs_list
    \/ gs_file_step
    \/ gs_finish

SpecGs == GsInit /\ [][GsNext]_vars

(***************************************************************************)
(* tmp-scripts/organize_uscreen_tree_as_show.py and                         *)
(* tmp-scripts/organize_dance_tvshows.py; the source root is the directory  *)
(* "src" and the destination root the directory "dst"                       *)
(***************************************************************************)
SrcRoot == "src"
DstRoot == "dst"
UsShow == "Show"

VIDEO_EXTS == {".mp4", ".mkv", ".mov", ".m4v"}

\* is_video
is_video(n) == Len(n) >= 1 /\ n[Len(n)] \in VIDEO_EXTS

\* the value None of an episode number that was not parsed
None == -1

\* int() of the digit groups in use
OrgInt == [t \in {"01", "02", "S01E02"} |-> IF t = "01" THEN 1 ELSE 2]

OrgBracketIds == {" [1]"}
OrgCidMarkers == {" (cid 7)"}
OrgDupMarkers == {" (2)"}

\* re.sub of a pattern anchored at the end of the name
DropTrailing(n, markers) ==
    IF Len(n) > 0 /\ n[Len(n)] \in markers THEN SubSeq(n, 1, Len(n) - 1) ELSE n

RECURSIVE StripSepTokens(_)
\* .strip(" -_.") on a name whose separators are the tokens " - " and " "
StripSepTokens(n) ==
    IF Len(n) > 0 /\ n[1] \in {" - ", " "} THEN StripSepTokens(Tail(n))
    ELSE IF Len(n) > 0 /\ n[Len(n)] \in {" - ", " "} THEN StripSepTokens(SubSeq(n, 1, Len(n) - 1))
    ELSE n

\* LEADING_EP_RE / LEADING_NUM_RE: digits, a separator, a non-empty rest
LEADING_EP_RE(n) == Len(n) >= 3 /\ n[1] \in {"01", "02"} /\ n[2] = " - "

\* main, lines 145-154 (uscreen) and 206-215 (dance): when at least one name of the
\* group carries a number, the names that carry one keep it and the others are
\* numbered from 1; otherwise all are numbered from 1
AssignEpisodes(extracted) ==
    LET have_any == \E k \in 1..Len(extracted) : extracted[k] # None
        Sequential(k) == ~have_any \/ extracted[k] = None
    IN  [k \in 1..Len(extracted) |->
            IF Sequential(k)
            THEN Cardinality({j \in 1..k : Sequential(j)})
            ELSE extracted[k]]

\* os.link / shutil.copy2 / os.rename of hardlink_or_copy and link_copy_move
link_copy_move(f, src, dst, mode) ==
    IF mode = "move" THEN Rename(f, src, dst)
    ELSE [p \in DOMAIN f \cup {dst} |-> IF p = dst THEN f[src] ELSE f[p]]

UsName(e, title) == <<e, " - ">> \o title \o MP4

\* files the initial tree of organize_uscreen_tree_as_show may contain
UsFiles ==
    { Path(<<SrcRoot, "Content", "Basics">>, UsName("01", <<"Sugar">>)),
      Path(<<SrcRoot, "Content", "Basics">>, UsName("01", <<"Sugar", " [1]">>)),
      Path(<<SrcRoot, "Content", "Basics">>, UsName("02", <<"Push">>)),
      Path(<<SrcRoot, "Content", "Basics">>, <<"Push", ".mp4">>),
      Path(<<SrcRoot, "Content", "Turns">>, UsName("01", <<"Sugar">>)),
      Path(<<SrcRoot, "Content", "Turns">>, <<"notes", ".txt">>),
      Path(<<SrcRoot, "Content">>, <<"Push", ".mp4">>) }

\* safe_component(f"Season {sidx:02d} - {season.category} - {season.collection}")
UsSeasonName ==
    [sidx \in 1..2, coll \in {"Basics", "Turns"} |->
        CASE sidx = 1 /\ coll = "Basics" -> "Season 01 - Content - Basics"
          [] sidx = 1 /\ coll = "Turns" -> "Season 01 - Content - Turns"
          [] sidx = 2 /\ coll = "Basics" -> "Season 02 - Content - Basics"
          [] OTHER -> "Season 02 - Content - Turns"]

\* list_leaf_seasons: the collection directories that hold a video directly, by
\* sorted category and sorted collection
list_leaf_seasons(f, ds) ==
    SortedNames({d \in ds : /\ Len(d) = 3
                            /\ d[1] = SrcRoot
                            /\ \E p \in listdir(f, d) : is_video(p.name)})

\* parse_ep
parse_ep(base) == IF LEADING_EP_RE(base) THEN OrgInt[base[1]] ELSE None

\* title_from_filename of organize_uscreen_tree_as_show
us_title_from_filename(base) ==
    LET stem == SubSeq(base, 1, Len(base) - 1)
        a == DropTrailing(stem, OrgBracketIds)
        b == IF LEADING_EP_RE(a) THEN SubSeq(a, 3, Len(a)) ELSE a
        c == StripWs(CollapseWs(StripSepTokens(b)))
    IN  IF c = <<>> THEN base ELSE c

\* main, lines 133-154, for season number sidx: its files with their episode numbers
UsSeason(f, seasons, sidx) ==
    LET d == seasons[sidx]
        names == SelectSeq(SortedNames({p.name : p \in listdir(f, d)}), is_video)
        eps == AssignEpisodes([k \in 1..Len(names) |-> parse_ep(names[k])])
    IN  [k \in 1..Len(names) |->
            [src |-> Path(d, names[k]), group |-> UsSeasonName[sidx, d[3]], s |-> sidx, ep |-> eps[k]]]

RECURSIVE UsWalk(_, _, _)
\* main, line 132: the seasons 1..n in order
UsWalk(f, seasons, n) ==
    IF n = 0 THEN <<>> ELSE UsWalk(f, seasons, n - 1) \o UsSeason(f, seasons, n)

\* main, lines 156-160: the destination of one file against the tree f
UsDst(f, e) ==
    LET base == e.src.name
        dst_name == safe_component(<<UsShow, " - S", Num2(e.s), "E", Num2(e.ep), " - ">>
                                   \o safe_component(us_title_from_filename(base))
                                   \o <<base[Len(base)]>>)
    IN  unique_path(f, Path(<<DstRoot, UsShow, e.group>>, dst_name))

UsInit ==
    /\ prog = "uscreen"
    /\ apply \in BOOLEAN
    /\ opts \in [mode : {"hardlink", "copy", "move"}]
    /\ pc = "list"
    /\ run = 1
    /\ fs \in Trees(UsFiles)
    /\ dirs = DirsOf(fs)
    /\ i = 1
    /\ exitCode = 0
    /\ planned = <<>>
    /\ files = <<>>
    /\ lines = <<>>
    /\ report = <<>>
    /\ skipped = <<>>
    /\ jt_seasons = <<>>
    /\ entries = <<>>
    /\ manifest = <<>>
    /\ missing = <<>>
    /\ dup_permalink = <<>>
    /\ seen_coll_permalink = {}
    /\ seen = {}
    /\ plan = <<>>
    /\ problems = <<>>
    /\ errors = 0
    /\ out = <<>>
    /\ moves = <<>>
    /\ titles = <<>>
    /\ section = <<>>
    /\ updates = <<>>
    /\ updated = 0

\* main, lines 127-154: the seasons, their sorted files and the episode numbers; the
\* destination tree is outside the season directories, so the listings do not
\* change while the files are handled
us_list ==
    /\ prog = "uscreen" /\ pc = "list"
    /\ LET seasons == list_leaf_seasons(fs, dirs)
       IN  files' = UsWalk(fs, seasons, Len(seasons))
    /\ lines' = <<[action |-> "action", src |-> NoPath, dst |-> NoPath]>>
    /\ i' = 1
    /\ pc' = "files"
    /\ UNCHANGED <<prog, apply, opts, run, fs, dirs, exitCode, promoteVars, westVars>>
    /\ UNCHANGED <<entries, planned, missing, dup_permalink, seen_coll_permalink, report>>
    /\ UNCHANGED <<manifest, jtVars, titleVars>>

\* main, lines 149-166: one file; link_copy_move is not guarded by a try
us_file_step ==
    /\ prog = "uscreen" /\ pc = "files" /\ i <= Len(files)
    /\ LET src == files[i].src
           dst == UsDst(fs, files[i])
       IN  /\ planned' = Append(planned, [src |-> src, dst |-> dst])
           /\ IF apply
              THEN /\ dirs' = ensure_parent(dirs, dst)
                   /\ \/ /\ fs' = link_copy_move(fs, src, dst, opts.mode)
                         /\ lines' = Append(lines, [action |-> "LINK", src |-> src, dst |-> dst])
                         /\ i' = i + 1
                         /\ UNCHANGED <<pc, exitCode>>
                      \/ /\ pc' = "crashed"
                         /\ exitCode' = 1
                         /\ UNCHANGED <<fs, lines, i>>
              ELSE /\ lines' = Append(lines, [action |-> "PLAN", src |-> src, dst |-> dst])
                   /\ i' = i + 1
                   /\ UNCHANGED <<fs, dirs, pc, exitCode>>
    /\ UNCHANGED <<prog, apply, opts, run, promoteVars, westVars>>
    /\ UNCHANGED <<entries, missing, dup_permalink, seen_coll_permalink, report>>
    /\ UNCHANGED <<manifest, jtVars, gsVars, titleVars>>

\* main, lines 168-174: with --apply the report is written under the destination root
us_finish ==
    /\ prog = "uscreen" /\ pc = "files" /\ i > Len(files)
    /\ IF apply
       THEN /\ dirs' = dirs \cup {<<DstRoot>>}
            /\ report' = lines
       ELSE UNCHANGED <<dirs, report>>
    /\ pc' = "done"
    /\ exitCode' = 0
    /\ UNCHANGED <<prog, apply, opts, run, fs, i, promoteVars, westVars>>
    /\ UNCHANGED <<entries, planned, missing, dup_permalink, seen_coll_permalink, lines>>
    /\ UNCHANGED <<manifest, jtVars, gsVars, titleVars>>

\* the script is started again, with the same arguments, on the tree it left
us_rerun ==
    /\ prog = "uscreen" /\ pc = "done"
    /\ run < MaxRuns
    /\ run' = run + 1
    /\ pc' = "list"
    /\ planned' = <<>>
    /\ files' = <<>>
    /\ lines' = <<>>
    /\ i' = 1
    /\ UNCHANGED <<prog, apply, opts, fs, dirs, exitCode, promoteVars, westVars>>
    /\ UNCHANGED <<entries, missing, dup_permalink, seen_coll_permalink, report>>
    /\ UNCHANGED <<manifest, jtVars, titleVars>>

UsNext ==
    \/ us_list
    \/ us_file_step
    \/ us_finish
    \/ us_rerun

SpecUs == UsInit /\ [][UsNext]_vars

\* "<name>", "<name> - Misc" and "<name> - <sub>" for the top-level directory "Top"
DanceGroupName ==
    [sub \in {"", "Misc", "Sub"} |->
        CASE sub = "" -> "Top" [] sub = "Misc" -> "Top - Misc" [] OTHER -> "Top - Sub"]

\* files the initial tree of organize_dance_tvshows may contain
DanceFiles ==
    { Path(<<SrcRoot, "Top">>, UsName("01", <<"Sugar">>)),
      Path(<<SrcRoot, "Top">>, <<"Sugar", ".mp4">>),
      Path(<<SrcRoot, "Top">>, <<"S01E02", " - ", "Push", ".mp4">>),
      Path(<<SrcRoot, "Top">>, <<"notes", ".txt">>),
      Path(<<SrcRoot, "Top", "Sub">>, UsName("01", <<"Sugar">>)),
      Path(<<SrcRoot, "Top", "Sub">>, <<"Push", ".mp4">>),
      Path(<<SrcRoot, "Top", "Sub", "Deep">>, UsName("01", <<"Sugar", " [1]">>)),
      Path(<<SrcRoot, "_variants">>, <<"Sugar", ".mp4">>) }

\* the order sorted() puts two path strings in
StrLess(p, q) == SeqLess(p.dir \o p.name, q.dir \o q.name)

RECURSIVE SortedStrings(_)
SortedStrings(S) ==
    IF S = {} THEN <<>>
    ELSE LET m == CHOOSE p \in S : \A q \in S \ {p} : StrLess(p, q)
         IN  <<m>> \o SortedStrings(S \ {m})

\* list_videos_direct
list_videos_direct(f, d) == SortedStrings({p \in listdir(f, d) : is_video(p.name)})

\* list_videos_recursive
list_videos_recursive(f, d) ==
    SortedStrings({p \in DOMAIN f : StartsWith(p.dir, d) /\ is_video(p.name)})

\* build_groups, lines 157-179, for one top-level directory
GroupsOf(f, ds, name) ==
    LET p == <<SrcRoot, name>>
        direct == list_videos_direct(f, p)
        subdirs == SortedNames({d \in ds : Len(d) = 3 /\ StartsWith(d, p)})
        HasVideos(sd) == list_videos_recursive(f, sd) # <<>>
        sub_with_videos == SelectSeq(subdirs, HasVideos)
        subs == [k \in 1..Len(sub_with_videos) |->
                    [name |-> DanceGroupName[sub_with_videos[k][3]],
                     files |-> list_videos_recursive(f, sub_with_videos[k])]]
    IN  IF direct # <<>> /\ sub_with_videos # <<>>
        THEN <<[name |-> DanceGroupName["Misc"], files |-> direct]>> \o subs
        ELSE IF sub_with_videos # <<>> THEN subs
        ELSE IF direct # <<>> THEN <<[name |-> DanceGroupName[""], files |-> direct]>>
        ELSE <<>>

RECURSIVE GroupsOfAll(_, _, _)
GroupsOfAll(f, ds, names) ==
    IF names = <<>> THEN <<>>
    ELSE GroupsOfAll(f, ds, SubSeq(names, 1, Len(names) - 1)) \o GroupsOf(f, ds, names[Len(names)][1])

\* build_groups: the top-level directories in sorted order, the destination's own
\* name, "_variants" and hidden names left out
build_groups(f, ds) ==
    GroupsOfAll(f, ds, SortedNames({<<d[2]>> : d \in {x \in ds : /\ Len(x) = 2
                                                                  /\ x[1] = SrcRoot
                                                                  /\ x[2] \notin {DstRoot, "_variants"}}}))

\* SXXEXX_RE.search: the first SxxEyy group of the name, 0 when there is none
SxxEyyAt(n) ==
    IF \E k \in 1..Len(n) : n[k] = "S01E02"
    THEN CHOOSE k \in 1..Len(n) : n[k] = "S01E02" /\ \A j \in 1..(k - 1) : n[j] # "S01E02"
    ELSE 0

\* parse_episode_number_from_filename
parse_episode_number_from_filename(base) ==
    IF SxxEyyAt(base) # 0 THEN OrgInt[base[SxxEyyAt(base)]]
    ELSE IF LEADING_EP_RE(base) THEN OrgInt[base[1]]
    ELSE None

\* title_from_filename of organize_dance_tvshows
title_from_filename(base, show_name) ==
    LET stem == SubSeq(base, 1, Len(base) - 1)
        a == DropTrailing(DropTrailing(DropTrailing(stem, OrgBracketIds), OrgCidMarkers), OrgDupMarkers)
        b == IF Len(a) >= 2 /\ a[1] = show_name /\ a[2] = " - " THEN SubSeq(a, 3, Len(a)) ELSE a
        k == SxxEyyAt(b)
        c == IF k # 0 /\ k < Len(b) /\ b[k + 1] = " - " THEN SubSeq(b, k + 2, Len(b)) ELSE b
        d == IF LEADING_EP_RE(c) THEN SubSeq(c, 3, Len(c)) ELSE c
        e == StripWs(CollapseWs(StripSepTokens(d)))
    IN  IF e = <<>> THEN base ELSE e

\* main, lines 203-215, for one group: its files with their episode numbers
DanceGroup(g) ==
    LET eps == AssignEpisodes([k \in 1..Len(g.files) |->
                                  parse_episode_number_from_filename(g.files[k].name)])
    IN  [k \in 1..Len(g.files) |-> [src |-> g.files[k], group |-> g.name, s |-> 1, ep |-> eps[k]]]

RECURSIVE DanceWalk(_)
\* main, line 202: the groups in order
DanceWalk(groups) ==
    IF groups = <<>> THEN <<>>
    ELSE DanceWalk(SubSeq(groups, 1, Len(groups) - 1)) \o DanceGroup(groups[Len(groups)])

\* main, lines 217-222: the destination of one file against the tree f
DanceDst(f, e) ==
    LET base == e.src.name
        dst_name == safe_component(<<e.group, " - S", "01", "E", Num2(e.ep), " - ">>
                                   \o safe_component(title_from_filename(base, e.group))
                                   \o <<base[Len(base)]>>)
    IN  unique_path(f, Path(<<DstRoot, e.group, "Season 01">>, dst_name))

DanceInit ==
    /\ prog = "dance"
    /\ apply \in BOOLEAN
    /\ opts \in [mode : {"hardlink", "copy", "move"}]
    /\ pc = "list"
    /\ run = 1
    /\ fs \in Trees(DanceFiles)
    /\ dirs = DirsOf(fs)
    /\ i = 1
    /\ exitCode = 0
    /\ planned = <<>>
    /\ files = <<>>
    /\ lines = <<>>
    /\ report = <<>>
    /\ skipped = <<>>
    /\ jt_seasons = <<>>
    /\ entries = <<>>
    /\ manifest = <<>>
    /\ missing = <<>>
    /\ dup_permalink = <<>>
    /\ seen_coll_permalink = {}
    /\ seen = {}
    /\ plan = <<>>
    /\ problems = <<>>
    /\ errors = 0
    /\ out = <<>>
    /\ moves = <<>>
    /\ titles = <<>>
    /\ section = <<>>
    /\ updates = <<>>
    /\ updated = 0

\* main, lines 196-215: the groups with their sorted files and the episode numbers
dance_list ==
    /\ prog = "dance" /\ pc = "list"
    /\ files' = DanceWalk(build_groups(fs, dirs))
    /\ lines' = <<[action |-> "action", src |-> NoPath, dst |-> NoPath]>>
    /\ i' = 1
    /\ pc' = "files"
    /\ UNCHANGED <<prog, apply, opts, run, fs, dirs, exitCode, promoteVars, westVars>>
    /\ UNCHANGED <<entries, planned, missing, dup_permalink, seen_coll_permalink, report>>
    /\ UNCHANGED <<manifest, jtVars, titleVars>>

\* main, lines 210-229: one file; hardlink_or_copy is not guarded by a try
dance_file_step ==
    /\ prog = "dance" /\ pc = "files" /\ i <= Len(files)
    /\ LET src == files[i].src
           dst == DanceDst(fs, files[i])
       IN  /\ planned' = Append(planned, [src |-> src, dst |-> dst])
           /\ IF apply
              THEN /\ dirs' = ensure_parent(dirs, dst)
                   /\ \/ /\ fs' = link_copy_move(fs, src, dst, opts.mode)
                         /\ lines' = Append(lines, [action |-> "LINK", src |-> src, dst |-> dst])
                         /\ i' = i + 1
                         /\ UNCHANGED <<pc, exitCode>>
                      \/ /\ pc' = "crashed"
                         /\ exitCode' = 1
                         /\ UNCHANGED <<fs, lines, i>>
              ELSE /\ lines' = Append(lines, [action |-> "PLAN", src |-> src, dst |-> dst])
                   /\ i' = i + 1
                   /\ UNCHANGED <<fs, dirs, pc, exitCode>>
    /\ UNCHANGED <<prog, apply, opts, run, promoteVars, westVars>>
    /\ UNCHANGED <<entries, missing, dup_permalink, seen_coll_permalink, report>>
    /\ UNCHANGED <<manifest, jtVars, gsVars, titleVars>>

\* main, lines 231-238: with --apply the report is written under the destination root
dance_finish ==
    /\ prog = "dance" /\ pc = "files" /\ i > Len(files)
    /\ IF apply
       THEN /\ dirs' = dirs \cup {<<DstRoot>>}
            /\ report' = lines
       ELSE UNCHANGED <<dirs, report>>
    /\ pc' = "done"
    /\ exitCode' = 0
    /\ UNCHANGED <<prog, apply, opts, run, fs, i, promoteVars, westVars>>
    /\ UNCHANGED <<entries, planned, missing, dup_permalink, seen_coll_permalink, lines>>
    /\ UNCHANGED <<manifest, jtVars, gsVars, titleVars>>

\* the script is started again, with the same arguments, on the tree it left
dance_rerun ==
    /\ prog = "dance" /\ pc = "done"
    /\ run < MaxRuns
    /\ run' = run + 1
    /\ pc' = "list"
    /\ planned' = <<>>
    /\ files' = <<>>
    /\ lines' = <<>>
    /\ i' = 1
    /\ UNCHANGED <<prog, apply, opts, fs, dirs, exitCode, promoteVars, westVars>>
    /\ UNCHANGED <<entries, missing, dup_permalink, seen_coll_permalink, report>>
    /\ UNCHANGED <<manifest, jtVars, titleVars>>

DanceNext ==
    \/ dance_list
    \/ dance_file_step
    \/ dance_finish
    \/ dance_rerun

SpecDance == DanceInit /\ [][DanceNext]_vars

(***************************************************************************)
(* scripts/plex_title_from_filename.py, main                               *)
(***************************************************************************)
\* --files-root
FilesRoot == <<"lib">>

PlexName(e, title) == <<"Show", " - S", "01", "E", e, " - ">> \o title \o MP4

\* a Video element: its ratingKey ("" when absent), the file of its first
\* Part (NoPath when it has none) and the title the server holds
Video(rk, fp) == [ratingKey |-> rk, file |-> fp, title |-> <<"old">>, locked |-> FALSE]

\* Video elements the library section may hold
PlexVideos ==
    { Video("1", Path(FilesRoot, PlexName("01", <<"X">>))),
      Video("2", Path(FilesRoot, PlexName("02", <<"X", " ", "[1]">>))),
      Video("3", Path(<<"other">>, PlexName("03", <<"X">>))),
      Video("", Path(FilesRoot, PlexName("04", <<"X">>))),
      Video("5", Path(FilesRoot, PlexName("05", <<"[1]">>))),
      Video("6", NoPath) }

\* the library sections: lists of distinct Video elements
PlexSections ==
    {vs \in UNION {[1..n -> PlexVideos] : n \in 0..MaxEpisodes} :
        \A a, b \in 1..Len(vs) : a # b => vs[a] # vs[b]}

PlexInit ==
    /\ prog = "plextitle"
    /\ apply \in BOOLEAN
    /\ opts \in [limit : 0..1]
    /\ pc = "fetch"
    /\ run = 1
    /\ section \in PlexSections
    /\ updates = <<>>
    /\ updated = 0
    /\ titles = <<>>
    /\ fs = <<>>
    /\ dirs = {}
    /\ i = 1
    /\ exitCode = 0
    /\ planned = <<>>
    /\ skipped = <<>>
    /\ jt_seasons = <<>>
    /\ files = <<>>
    /\ report = <<>>
    /\ entries = <<>>
    /\ manifest = <<>>
    /\ missing = <<>>
    /\ dup_permalink = <<>>
    /\ seen_coll_permalink = {}
    /\ lines = <<>>
    /\ seen = {}
    /\ plan = <<>>
    /\ problems = <<>>
    /\ errors = 0
    /\ out = <<>>
    /\ moves = <<>>

\* main, lines 164-181: does the loop append an update for the Video v
IsUpdate(v) ==
    /\ v.ratingKey # ""
    /\ v.file # NoPath
    /\ v.file.dir = FilesRoot
    /\ title_from_file_path(v.file.name) # <<>>

\* main, lines 161-184: the list of updates, cut to --limit
RECURSIVE UpdatesOf(_)
UpdatesOf(vs) ==
    IF vs = <<>> THEN <<>>
    ELSE (IF IsUpdate(Head(vs))
          THEN <<[rk |-> Head(vs).ratingKey, fp |-> Head(vs).file,
                  title |-> title_from_file_path(Head(vs).file.name)]>>
          ELSE <<>>) \o UpdatesOf(Tail(vs))

Limited(us, limit) ==
    IF limit # 0 /\ Len(us) > limit THEN SubSeq(us, 1, limit) ELSE us

\* main, lines 155-193: the GETs of the section, the list of updates, and the
\* dry-run listing; a GET that curl gives up on raises SystemExit (lines 61-62)
plex_updates ==
    /\ prog = "plextitle" /\ pc = "fetch"
    /\ \/ /\ updates' = Limited(UpdatesOf(section), opts.limit)
          /\ pc' = IF apply THEN "put" ELSE "done"
          /\ exitCode' = 0
       \/ /\ pc' = "crashed"
          /\ exitCode' = 1
          /\ UNCHANGED updates
    /\ UNCHANGED <<prog, apply, opts, run, fs, dirs, i, promoteVars, reorgVars, westVars>>
    /\ UNCHANGED <<manifest, jtVars, gsVars, titles, section, updated>>

\* what the PUT of put_title (lines 130-133) does on the server
PutTitle(vs, rk, title) ==
    [k \in 1..Len(vs) |->
        IF vs[k].ratingKey = rk THEN [vs[k] EXCEPT !.title = title, !.locked = TRUE]
        ELSE vs[k]]

\* main, lines 196-201: one turn of the update loop
plex_put_step ==
    /\ prog = "plextitle" /\ pc = "put"
    /\ i <= Len(updates)
    /\ \/ \* the PUT succeeds
          /\ section' = PutTitle(section, updates[i].rk, updates[i].title)
          /\ updated' = updated + 1
          /\ i' = i + 1
          /\ UNCHANGED <<pc, exitCode, out>>
       \/ \* curl exits non-zero after its --retry 60: CalledProcessError becomes
          \* SystemExit (lines 61-62), which "except Exception" (line 200) lets through
          /\ pc' = "crashed"
          /\ exitCode' = 1
          /\ UNCHANGED <<section, updated, i, out>>
       \/ \* curl cannot be started: the OSError is caught at line 200
          /\ out' = Append(out, <<"ERROR", updates[i].rk>>)
          /\ i' = i + 1
          /\ UNCHANGED <<pc, exitCode, section, updated>>
    /\ UNCHANGED <<prog, apply, opts, run, fs, dirs, seen, plan, problems, errors, reorgVars, westVars>>
    /\ UNCHANGED <<manifest, jtVars, gsVars, titles, updates>>

\* main, line 203
plex_finish ==
    /\ prog = "plextitle" /\ pc = "put"
    /\ i > Len(updates)
    /\ pc' = "done"
    /\ exitCode' = 0
    /\ UNCHANGED <<prog, apply, opts, run, fs, dirs, i, promoteVars, reorgVars, westVars>>
    /\ UNCHANGED <<manifest, jtVars, gsVars, titleVars>>

PlexNext ==
    \/ plex_updates
    \/ plex_put_step
    \/ plex_finish

SpecPlex == PlexInit /\ [][PlexNext]_vars

(***************************************************************************)
(* All entry points                                                        *)
(***************************************************************************)
Init == PromoteInit \/ PromoteAmbiguousInit \/ ReorgInit \/ ReorgPartialsInit \/ WestInit \/ JtInit \/ GsInit \/ TitleInit \/ UsInit \/ DanceInit \/ PlexInit

Next == PromoteNext \/ ReorgNext \/ WestNext \/ JtNext \/ GsNext \/ TitleNext \/ UsNext \/ DanceNext \/ PlexNext

Spec == Init /\ [][Next]_vars


(***************************************************************************)
(* Properties                                                              *)
(***************************************************************************)
LastLine(ls) == ls[Len(ls)]

RangeOf(f) == {f[p] : p \in DOMAIN f}

\* C1: without --apply no step of any entry point changes the tree: no file is
\* renamed, replaced or deleted and no directory is created or removed, so the
\* media files and their contents stay what they were before the run.
C1_DryRunChangesNothing == [][~apply => (fs' = fs /\ dirs' = dirs)]_vars

\* a dry run of reorg that went through all three phases and reported what it would do
C1_Witness ==
    /\ prog = "reorg" /\ ~apply /\ pc = "done"
    /\ \E k \in 1..Len(lines) : lines[k].action = "PLAN"
    /\ \E k \in 1..Len(lines) : lines[k].action = "VARIANT_PLAN"
    /\ \E k \in 1..Len(lines) : lines[k].action = "PARTIAL_PLAN_DELETE"

DupDst(pl) == \E j, k \in 1..Len(pl) : j < k /\ pl[j].dst = pl[k].dst

\* C2: reorg reaches its execution loop only with pairwise distinct planned
\* destinations; planning changes nothing, and once two planned operations share
\* a destination the run can only end refused, with no rename, no variant move,
\* no partial deletion, no report line and no report file, with or without --apply.
C2_ConflictsRefusedBeforeExecution ==
    [][prog = "reorg" =>
          /\ (pc = "plan" => (fs' = fs /\ dirs' = dirs /\ report' = report))
          /\ (pc' \in {"moves", "variants", "partials", "report", "done", "crashed"} => ~DupDst(planned'))
          /\ (DupDst(planned') =>
                 /\ pc' \in {"plan", "refused"}
                 /\ fs' = fs /\ dirs' = dirs /\ lines' = <<>> /\ report' = <<>>)]_vars

\* an --apply run refused because two manifest entries map to one destination
C2_Witness == prog = "reorg" /\ apply /\ pc = "refused" /\ DupDst(planned)

\* C3: in apply mode a manifest-driven move of reorg never lands on a path that
\* exists when the operation is processed: every file other than the source keeps
\* its path and content; when the planned destination exists the source goes to the
\* "(cid ...)" alternative, and when that exists too the operation is recorded as
\* SKIP and nothing is renamed.
C3_MoveNeverOverwrites ==
    [][(prog = "reorg" /\ apply /\ pc = "moves" /\ i <= Len(planned)) =>
          LET src == planned[i].src
              dst == planned[i].dst
              alt == AltOf(entries, planned[i].entry)
          IN  /\ \A p \in DOMAIN fs \ {src} : p \in DOMAIN fs' /\ fs'[p] = fs[p]
              /\ (fs' # fs => /\ LastLine(lines').action = "MOVE"
                              /\ LastLine(lines').dst \notin DOMAIN fs
                              /\ fs'[LastLine(lines').dst] = fs[src]
                              /\ src \notin DOMAIN fs')
              /\ (src \in DOMAIN fs /\ dst \in DOMAIN fs /\ alt \notin DOMAIN fs /\ fs' # fs
                     => LastLine(lines').dst = alt)
              /\ (src \in DOMAIN fs /\ dst \in DOMAIN fs /\ alt \in DOMAIN fs
                     => fs' = fs /\ LastLine(lines').action = "SKIP")]_vars

\* a source was moved to the cid-suffixed alternative because its destination existed
C3_Witness ==
    /\ prog = "reorg" /\ apply
    /\ \E k \in 1..Len(lines) :
          /\ lines[k].action = "MOVE"
          /\ " (cid " \in Elems(lines[k].dst.name)
          /\ lines[k].dst \in DOMAIN fs
          /\ DstOf(entries, lines[k].entry) \in DOMAIN fs

\* C4: promote_one on a plan item whose backup_original path exists fails with an
\* error and changes nothing: no file moves, no content changes, no directory appears.
C4_ExistingBackupFailsCleanly ==
    [][(/\ prog = "promote" /\ pc = "exec" /\ i <= Len(plan)
        /\ ~opts.delete_originals
        /\ plan[i].backup_original \in DOMAIN fs) =>
          /\ fs' = fs /\ dirs' = dirs
          /\ Len(out') = Len(out) + 1
          /\ LastLine(out').action = "ERROR"
          /\ errors' = errors + 1
          /\ pc' = "exec" /\ i' = i + 1]_vars

\* promote_one refused an item because its backup was already there; variant,
\* original and backup are all still in place
C4_Witness ==
    /\ prog = "promote" /\ run = 1
    /\ \E k \in 1..Len(out) :
          /\ out[k].note = "FileExistsError"
          /\ \E j \in 1..Len(plan) :
                /\ plan[j].variant = out[k].path
                /\ plan[j].variant \in DOMAIN fs
                /\ plan[j].original \in DOMAIN fs
                /\ fs[plan[j].backup_original] = plan[j].backup_original

\* C5: in promote_one (backup mode) the variant is renamed onto the original path
\* only after the original was renamed to the backup path, and no step, including a
\* failure between the two renames, loses a content: the first rename carries the
\* original's content to the backup path, the second carries the variant's content to
\* the vacated original path, and every other file keeps its content.
C5_BackupBeforeReplace ==
    [][(prog = "promote" /\ ~opts.delete_originals) =>
          /\ RangeOf(fs') = RangeOf(fs)
          /\ Cardinality(DOMAIN fs') = Cardinality(DOMAIN fs)
          /\ (fs' # fs => pc \in {"backup", "replace"})
          /\ (pc = "backup" /\ fs' # fs =>
                 /\ fs' = Rename(fs, plan[i].original, plan[i].backup_original)
                 /\ plan[i].backup_original \notin DOMAIN fs)
          /\ (pc = "replace" =>
                 /\ plan[i].original \notin DOMAIN fs
                 /\ plan[i].backup_original \in DOMAIN fs
                 /\ plan[i].variant \in DOMAIN fs)
          /\ (pc = "replace" /\ fs' # fs =>
                 fs' = Rename(fs, plan[i].variant, plan[i].original))]_vars

\* the second rename failed: the original sits at the backup path, the variant at its own
C5_Witness ==
    /\ prog = "promote" /\ ~opts.delete_originals /\ run = 1
    /\ \E k \in 1..Len(out) : \E j \in 1..Len(plan) :
          /\ out[k].note = "OSError"
          /\ plan[j].variant = out[k].path
          /\ plan[j].original \notin DOMAIN fs
          /\ fs[plan[j].backup_original] = plan[j].original
          /\ fs[plan[j].variant] = plan[j].variant

\* C6: find_source_file of reorg never resolves an entry through the startswith
\* fallback when two or more files of the collection directory satisfy it.
C6_FallbackNeverPicksAmongSeveral ==
    (prog = "reorg" /\ pc = "plan") =>
        \A k \in 1..Len(planned) :
           LET base == permalink_to_base(planned[k].entry.permalink)
               src == planned[k].src
           IN  src.name # base \o MP4 =>
                  Cardinality({q \in DOMAIN fs : /\ q.dir = src.dir
                                                 /\ EndsWith(q.name, MP4)
                                                 /\ StartsWith(q.name, base)
                                                 /\ ".plex-appletv" \notin Elems(q.name)}) <= 1

\* C7: in plan_promotions, when the basename fallback is enabled and finds more
\* than one indexed file with the expected basename, the problem recorded for the
\* variant is an ambiguity listing the candidates, not the not-found problem.
C7_BasenameAmbiguityReported ==
    (prog = "promote" /\ pc \in {"plan", "summary"} /\ ~opts.no_basename_fallback) =>
        \A k \in 1..Len(problems) :
           LET v == problems[k].variant
               expected == SubSeq(v.name, 1, Len(v.name) - 2) \o <<".mp4">>
               sameBase == {q \in DOMAIN fs : (q.dir = <<>> \/ q.dir[1] # VariantsDir) /\ q.name = expected}
           IN  (Cardinality(sameBase) > 1 /\ problems[k].matches = {})
                  => problems[k].kind # "no matching original for variant"

\* C8: no two items of a plan returned by plan_promotions target the same original.
C8_PlanOriginalsDistinct ==
    prog = "promote" =>
        \A j, k \in 1..Len(plan) : j < k => plan[j].original # plan[k].original

\* C9: after an apply run of promote in backup mode in which every item reported
\* DONE, planning again on the resulting tree with the same options gives an empty plan.
C9_ReplanAfterApplyIsEmpty ==
    (/\ prog = "promote" /\ apply /\ ~opts.delete_originals
     /\ run = 2 /\ exitCode = 0 /\ pc = "summary") => plan = <<>>

\* C10: after a successful apply of westcoast, collecting and planning again on the
\* resulting tree gives only pairs whose source equals their destination.
C10_ReplanAfterApplyMovesNothing ==
    (prog = "westcoast" /\ apply /\ run = 2 /\ pc = "moves") =>
        \A k \in 1..Len(moves) : moves[k].src = moves[k].dst

\* C11: in apply mode of jtswing no rename targets a path that exists at the moment
\* of the rename, a path created by an earlier rename of the batch included, so the
\* number of mp4 files is the same before and after every move.
C11_RenameNeverTargetsExisting ==
    [][(prog = "jtswing" /\ apply /\ pc = "moves" /\ i <= Len(planned)) =>
          /\ (fs' # fs => planned[i].dst \notin DOMAIN fs)
          /\ Cardinality({p \in DOMAIN fs' : EndsWith(p.name, MP4)})
                = Cardinality({p \in DOMAIN fs : EndsWith(p.name, MP4)})]_vars

\* C12: in apply mode of promote the items are attempted once each in plan order and
\* each yields exactly one outcome line: line k is DONE for the original of item k or
\* ERROR for the variant of item k, the error counter counts the ERROR lines, and
\* when the loop is over there are as many lines as plan items, whichever items failed.
C12_EveryItemOneOutcome ==
    (prog = "promote" /\ apply /\ pc \in {"exec", "backup", "replace", "done"}) =>
        /\ Len(out) = i - 1
        /\ i <= Len(plan) + 1
        /\ (pc = "done" => Len(out) = Len(plan))
        /\ \A k \in 1..Len(out) :
              \/ out[k].action = "DONE" /\ out[k].path = plan[k].original
              \/ out[k].action = "ERROR" /\ out[k].path = plan[k].variant
        /\ errors = Cardinality({k \in 1..Len(out) : out[k].action = "ERROR"})

\* the first item failed and the one after it was still carried out
C12_Witness ==
    /\ prog = "promote" /\ apply /\ pc = "done"
    /\ Len(plan) >= 2
    /\ out[1].action = "ERROR"
    /\ out[2].action = "DONE"

\* C13: apply never stops in the middle of a batch: when a run of jtswing or
\* westcoast has ended, every planned move was attempted, and when a run of reorg
\* has left its variant phase, every variant file found was attempted and the run
\* goes on to its report; a failed rename does not end the run.
C13_ApplyNeverAbortsMidBatch ==
    /\ (prog = "jtswing" /\ apply /\ pc \in {"done", "crashed"}) => i > Len(planned)
    /\ (prog = "westcoast" /\ apply /\ pc \in {"done", "crashed"}) => i > Len(moves)
    /\ (prog = "reorg" /\ apply /\ opts.move_variants /\ pc \in {"partials", "report", "done", "crashed"})
          => /\ iter_variant_files(fs) \subseteq seen
             /\ pc # "crashed"

\* C14: when an apply run of promote or reorg has ended, its exit code is non-zero
\* exactly when at least one item ended in ERROR.
C14_ExitCodeReflectsErrors ==
    /\ (prog = "promote" /\ apply /\ pc = "done") =>
          (exitCode # 0 <=> \E k \in 1..Len(out) : out[k].action = "ERROR")
    /\ (prog = "reorg" /\ apply /\ pc = "done") =>
          (exitCode # 0 <=> \E k \in 1..Len(lines) : lines[k].action = "ERROR")

Malformed(ls) == \E k \in 1..Len(ls) : ls[k].kind \in {"bad", "nonobj"}

\* C16: when a non-blank line of the manifest cannot be read, reorg ends while
\* parsing: it has no entry and no planned operation, it renames and deletes
\* nothing, creates no directory and writes no report line and no report,
\* whatever lines come before or after the one that cannot be read.
C16_MalformedManifestStopsTheRun ==
    [][(prog = "reorg" /\ Malformed(manifest)) =>
          /\ pc = "parse" /\ pc' = "parse_error"
          /\ exitCode' # 0
          /\ fs' = fs /\ dirs' = dirs
          /\ entries' = <<>> /\ planned' = <<>> /\ missing' = <<>>
          /\ lines' = <<>> /\ report' = <<>>]_vars

\* an --apply run stopped on a manifest whose first line is well-formed and whose
\* second is not, with a source file that the first line would have moved
C16_Witness ==
    /\ prog = "reorg" /\ apply /\ pc = "parse_error"
    /\ Len(manifest) = 2
    /\ manifest[1].kind = "obj" /\ manifest[1].entry.collection = "K"
    /\ manifest[2].kind = "bad"
    /\ find_source_file(fs, dirs, "K", manifest[1].entry.permalink) # {NoPath}

\* C17: when planned operations of reorg share a destination, the refused run
\* reports a PROBLEM entry for every contributing source, naming the source and
\* the destination, and not only how many destinations conflict.
C17_ConflictsReportedWithSources ==
    (prog = "reorg" /\ pc = "refused") =>
        \A k \in 1..Len(planned) :
           planned[k].dst \in Conflicts(planned) =>
              \/ \E j \in 1..Len(out) :
                    /\ out[j].action = "PROBLEM"
                    /\ out[j].src = planned[k].src /\ out[j].dst = planned[k].dst
              \/ \E j \in 1..Len(lines) :
                    /\ lines[j].action = "PROBLEM"
                    /\ lines[j].src = planned[k].src /\ lines[j].dst = planned[k].dst

\* C18: title normalisation is idempotent: normalising the output of the garysusan
\* normalisation, or of title_from_file_path, gives that output again.
C18_NormalizeIdempotent ==
    (prog = "title" /\ Len(titles) >= 3) => titles[3] = titles[2]

\* C19: garysusan plans a rename for every episode file whose title ends with a
\* bracketed numeric id, and the new file name does not contain that id, with or
\* without a collection prefix at the start of the title.
C19_BracketIdAlwaysStripped ==
    (prog = "garysusan" /\ pc = "done") =>
        \A k \in 1..Len(files) :
           LET raw == GsRawTitle(files[k].name)
           IN  raw[Len(raw)] \in BracketIds =>
                  \E j \in 1..Len(planned) :
                     /\ planned[j].src = files[k]
                     /\ raw[Len(raw)] \notin Elems(planned[j].dst.name)

\* C20: every destination file name a planner produces carries a non-empty title:
\* in garysusan and in westcoast the token after the "SxxEyy - " part of a planned
\* destination is a title token, not the extension or a duplicate marker.
C20_PlannedTitleNonEmpty ==
    /\ prog = "garysusan" =>
          \A j \in 1..Len(planned) :
             planned[j].dst.name[7] \notin {".mp4"} \cup {DupMark(n) : n \in 2..8}
    /\ prog = "westcoast" =>
          \A k \in 1..Len(moves) : moves[k].dst.name[7] \notin {".mp4", ".mov"}

\* position of an element in a sequence without repetitions
PosIn(s, x) == CHOOSE k \in 1..Len(s) : s[k] = x

\* C21: in jtswing_single_show the season numbers map the distinct categories
\* one-to-one onto 1..n: the categories of PREFERRED_ORDER come first, in the
\* order of that list, every other category follows in alphabetical order, and
\* so the numbering is the same for every order in which the directories are listed.
C21_SeasonsPreferredThenAlphabetical ==
    (prog = "jtswing" /\ pc = "planned") =>
        LET cats == {JtCategory[d] : d \in existing_dirs(dirs) \cap DOMAIN JtCategory}
            Pref(c) == c \in Elems(PREFERRED_ORDER)
        IN  /\ Elems(jt_seasons) = cats
            /\ Len(jt_seasons) = Cardinality(cats)
            /\ \A j, k \in 1..Len(jt_seasons) :
                 j < k =>
                   /\ Pref(jt_seasons[k]) => Pref(jt_seasons[j])
                   /\ (Pref(jt_seasons[j]) /\ Pref(jt_seasons[k])) =>
                        PosIn(PREFERRED_ORDER, jt_seasons[j]) < PosIn(PREFERRED_ORDER, jt_seasons[k])
                   /\ (~Pref(jt_seasons[j]) /\ ~Pref(jt_seasons[k])) =>
                        SeqLess(<<jt_seasons[j]>>, <<jt_seasons[k]>>)

\* two categories outside PREFERRED_ORDER follow a preferred one
C21_Witness ==
    /\ prog = "jtswing" /\ pc = "planned"
    /\ jt_seasons = <<"Drills", "Blues", "Zouk">>

\* C22 (as claimed): in reorganize_westcoast_privates the episode number in each
\* destination name equals the episode number parsed from the source name.
C22_SourceOrdinalsKept ==
    (prog = "westcoast" /\ pc = "moves") =>
        \A k \in 1..Len(moves) : moves[k].dst.name[5] = moves[k].src.name[5]

\* C22 (amended): the planner numbers the files of each instructor season 1..n
\* in sorted source-path order, whatever number the source name carries.
C22_RenumberedFromOnePerSeason ==
    (prog = "westcoast" /\ pc = "moves") =>
        \A k \in 1..Len(moves) :
            /\ moves[k].dst.name[5] =
                   Num2(Cardinality({j \in 1..k : moves[j].dst.dir = moves[k].dst.dir}))
            /\ \A j \in 1..(k - 1) :
                   moves[j].dst.dir = moves[k].dst.dir => PathLess(moves[j].src, moves[k].src)

\* a planned move whose source carries episode 07 and whose destination carries 02
C22_Witness ==
    /\ prog = "westcoast" /\ pc = "moves"
    /\ \E k \in 1..Len(moves) : moves[k].src.name[5] = "07" /\ moves[k].dst.name[5] = "02"

\* the tree a run started from, read off the contents: no step of garysusan, uscreen
\* or dance loses or overwrites a file
InitialTree(f) == [p \in RangeOf(f) |-> p]

\* C23: for the same initial filesystem, the destination a dry run reports for a
\* source is the destination an apply run uses for it; a dry run changes nothing,
\* so what it reports for a source is the destination computed against the initial
\* tree (garysusan_rename_episode_files, organize_uscreen_tree_as_show,
\* organize_dance_tvshows, first run).
C23_DryRunDestinationIsApplyDestination ==
    (run = 1 /\ prog \in {"garysusan", "uscreen", "dance"}) =>
        \A k \in 1..Len(planned) :
            planned[k].dst =
                CASE prog = "garysusan" -> GsPlanOne(InitialTree(fs), planned[k].src).dst
                  [] prog = "uscreen" -> UsDst(InitialTree(fs), files[k])
                  [] OTHER -> DanceDst(InitialTree(fs), files[k])

\* C24: a second apply run of organize_dance_tvshows or
\* organize_uscreen_tree_as_show in hardlink or copy mode, on the tree the first
\* successful apply left, creates no file.
C24_RerunCreatesNoFile ==
    [][(prog \in {"dance", "uscreen"} /\ apply /\ run > 1 /\ opts.mode \in {"hardlink", "copy"})
          => DOMAIN fs' = DOMAIN fs]_vars

\* C30: in organize_dance_tvshows and organize_uscreen_tree_as_show no two files
\* of one show group or season are assigned the same episode number.
C30_EpisodeNumbersDistinctInGroup ==
    (prog \in {"dance", "uscreen"}) =>
        \A j, k \in 1..Len(files) :
            (j # k /\ files[j].group = files[k].group) => files[j].ep # files[k].ep

\* a name with a partial-download suffix: .part, .part-FragN, .part-FragN.part, .ytdl
IsPartialDownload(n) ==
    \/ n[Len(n)] \in {".part", ".ytdl"}
    \/ Len(n) >= 2 /\ n[Len(n)] \in FragTokens /\ n[Len(n) - 1] = ".part"

\* C25: with --delete-safe-partials, reorg_plex_tv deletes only partial-download
\* files (.part / .ytdl) for which a distinct completed file exists at the path
\* obtained by stripping the partial suffix; a completed media file is never
\* deleted, also when its name contains ".part".
C25_OnlySafePartialsDeleted ==
    [][(prog = "reorg" /\ pc = "partials") =>
          \A p \in DOMAIN fs \ DOMAIN fs' :
              /\ IsPartialDownload(p.name)
              /\ Path(p.dir, strip_partial_suffix(p.name)) # p
              /\ Path(p.dir, strip_partial_suffix(p.name)) \in DOMAIN fs]_vars

\* a variant for which the exact lookup fails and the in-directory step finds
\* more than one candidate
AmbiguousInDir(v) ==
    /\ EndsWith(v.name, SUFFIX)
    /\ ExactMatches(fs, v) = {}
    /\ Cardinality(DirCands(fs, dirs, v)) > 1

\* C26: in plan_promotions, when the exact lookup fails and the in-directory step
\* finds more than one candidate, the chain stops for that variant: exactly one
\* problem is recorded for it, it is the "multiple originals" problem, no plan
\* item is produced, and the basename fallback is not consulted.
C26_AmbiguousInDirStopsChain ==
    (prog = "promote" /\ pc \in {"plan", "summary"}) =>
        \A v \in seen :
            AmbiguousInDir(v) =>
                /\ Cardinality({k \in 1..Len(problems) : problems[k].variant = v}) = 1
                /\ \A k \in 1..Len(problems) :
                       problems[k].variant = v =>
                           /\ problems[k].kind = "multiple originals match variant"
                           /\ problems[k].matches = DirCands(fs, dirs, v)
                /\ \A k \in 1..Len(plan) : plan[k].variant # v

\* the fallback is enabled and would have found exactly one file
C26_Witness ==
    /\ prog = "promote" /\ pc = "summary" /\ ~opts.no_basename_fallback
    /\ \E v \in seen :
          /\ AmbiguousInDir(v)
          /\ Cardinality(BaseCands(fs, v)) = 1
          /\ Len(problems) = 1 /\ plan = <<>>

\* how many elements of the sequence s satisfy Test
CountIn(s, Test(_)) == Cardinality({k \in 1..Len(s) : Test(s[k])})

EntryActions == {"PLAN", "MOVE", "DONE", "SKIP", "MISSING", "ERROR"}

\* every entry is in exactly one of planned, missing, dup_permalink
C27_Classified ==
    /\ Len(planned) + Len(missing) + Len(dup_permalink) = Len(entries)
    /\ \A e \in Elems(entries) :
          LET Is(x) == x = e
              Has(x) == x.entry = e
          IN  CountIn(entries, Is) =
                  CountIn(planned, Has) + CountIn(missing, Has) + CountIn(dup_permalink, Has)

\* every entry has exactly one report line, with an action of EntryActions; the
\* lines of missing and duplicate entries carry no source, and every MOVE line
\* stands for one rename, of a planned source to the line's destination
C27_OneLineEach ==
    /\ \A k \in 1..Len(lines) :
          lines[k].entry # NoEntry => lines[k].action \in EntryActions
    /\ \A e \in Elems(entries) :
          LET Is(x) == x = e
              Has(x) == x.entry = e
              HasNoSrc(x) == x.entry = e /\ x.src = NoPath /\ x.action \in {"MISSING", "SKIP"}
              HasSrc(x) == x.entry = e /\ x.src # NoPath
          IN  /\ CountIn(lines, Has) = CountIn(entries, Is)
              /\ CountIn(lines, HasNoSrc) = CountIn(missing, Has) + CountIn(dup_permalink, Has)
              /\ CountIn(lines, HasSrc) = CountIn(planned, Has)
    /\ \A k \in 1..Len(lines) :
          lines[k].action = "MOVE" =>
              /\ lines[k].dst \in DOMAIN fs
              /\ fs[lines[k].dst] = lines[k].src
              /\ \E j \in 1..Len(planned) :
                    planned[j].entry = lines[k].entry /\ planned[j].src = lines[k].src
    /\ LET IsMove(x) == x.action = "MOVE"
       IN  Cardinality({p \in DOMAIN fs : fs[p] # p /\ ".plex-appletv" \notin Elems(p.name)})
               = CountIn(lines, IsMove)

\* C27 (as claimed): once a run of reorg_plex_tv is past its planning and move
\* loops, or has stopped, every manifest entry is in exactly one of planned,
\* missing and duplicate-permalink and has exactly one report line whose action is
\* one of PLAN, MOVE, DONE, SKIP, MISSING, ERROR; at most one rename was attempted
\* per planned entry and none for the others.
C27_EveryEntryOneLine ==
    (prog = "reorg" /\ pc \in {"refused", "variants", "partials", "report", "done", "crashed"}) =>
        /\ C27_Classified
        /\ C27_OneLineEach

\* C27 (amended): the same for every run the destination conflict check lets
\* through; a refused run has classified every entry, recorded no line and
\* renamed nothing.
C27_EveryEntryOneLineUnlessRefused ==
    /\ (prog = "reorg" /\ pc \in {"variants", "partials", "report", "done", "crashed"}) =>
          /\ C27_Classified
          /\ C27_OneLineEach
    /\ (prog = "reorg" /\ pc = "refused") =>
          /\ C27_Classified
          /\ lines = <<>>
          /\ \A p \in DOMAIN fs : fs[p] = p

\* an apply run that ends with one entry moved and one skipped as a duplicate
C27_Witness ==
    /\ prog = "reorg" /\ pc = "done" /\ apply
    /\ Len(entries) = 2 /\ Len(dup_permalink) = 1 /\ Len(planned) = 1
    /\ \E k \in 1..Len(lines) : lines[k].action = "MOVE"
    /\ \E k \in 1..Len(lines) : lines[k].action = "SKIP"

\* C28: in plex_title_from_filename a title update that fails (the counter of
\* successful updates does not move) is reported as an ERROR line for that one
\* episode and the loop goes on to the next update: the failure does not end
\* the process.
C28_FailedUpdateReportedLoopContinues ==
    [][(prog = "plextitle" /\ pc = "put" /\ i <= Len(updates) /\ updated' = updated)
          => /\ pc' = "put"
             /\ i' = i + 1
             /\ out' = Append(out, <<"ERROR", updates[i].rk>>)]_vars

\* C29: in every plan built by reorg_plex_tv no two planned operations have the
\* same source file: two manifest entries with different permalinks are never
\* both resolved by find_source_file to one file on disk.
C29_PlannedSourcesDistinct ==
    prog = "reorg" =>
       \A a, b \in 1..Len(planned) :
          a # b => planned[a].src # planned[b].src

====
